---- MODULE Spec2Model ----
(***************************************************************************)
(* Brightness Wizard (src/brightness_wizard.py): gamma-ramp dimming with   *)
(* crash-safe state management.  The model covers the ramp construction    *)
(* (in IEEE-754 double arithmetic, as Python computes it), the backup and  *)
(* lock files, recovery, runtime brightness control and cleanup, for       *)
(* several operating-system processes identified by their process id.      *)
(***************************************************************************)
EXTENDS Integers, Sequences, FiniteSets, TLC

(***************************************************************************)
(* IEEE-754 binary64 values, as far as the program uses them.  A finite    *)
(* nonzero double is (-1)^s * 1.m2..m53 * 2^e; its 53 significand bits are *)
(* kept most-significant first (TLC's integers have 32 bits, too few for a *)
(* significand).  Every operation rounds to nearest, ties to even.         *)
(***************************************************************************)
SigBits == 53

Pow2(k) == IF k <= 0 THEN 1 ELSE 2 ^ k

ZeroBits == [k \in 1..SigBits |-> 0]

DZero == [s |-> 0, z |-> TRUE, e |-> 0, m |-> ZeroBits]

\* bits (most significant first) of the natural number n, no leading zero
RECURSIVE NatBits(_)
NatBits(n) == IF n = 0 THEN << >> ELSE Append(NatBits(n \div 2), n % 2)

\* value of the first k bits of a bit sequence, most significant first
RECURSIVE BitsNat(_, _)
BitsNat(b, k) == IF k = 0 THEN 0 ELSE 2 * BitsNat(b, k - 1) + b[k]

\* b + 1 on a bit sequence of fixed length; the carry out is dropped
BitsInc(b) ==
    [k \in 1..Len(b) |->
        IF \A j \in (k + 1)..Len(b) : b[j] = 1 THEN 1 - b[k] ELSE b[k]]

AnyOne(b) == \E k \in 1..Len(b) : b[k] = 1

\* Round the exact value 1.b2 b3 ... * 2^e (b[1] = 1, any length, plus a
\* sticky flag for a nonzero tail beyond b) to a double of sign s.
RoundBits(s, e, b, sticky) ==
    LET padded == IF Len(b) >= SigBits THEN b
                  ELSE b \o [k \in 1..(SigBits - Len(b)) |-> 0]
        head   == SubSeq(padded, 1, SigBits)
        guard  == IF Len(b) > SigBits THEN b[SigBits + 1] ELSE 0
        rest   == sticky \/ (Len(b) > SigBits + 1
                             /\ AnyOne(SubSeq(b, SigBits + 2, Len(b))))
        up     == guard = 1 /\ (rest \/ head[SigBits] = 1)
        inc    == BitsInc(head)
    IN  IF ~up THEN [s |-> s, z |-> FALSE, e |-> e, m |-> head]
        ELSE IF inc[1] = 1 THEN [s |-> s, z |-> FALSE, e |-> e, m |-> inc]
        ELSE [s |-> s, z |-> FALSE, e |-> e + 1,
              m |-> [k \in 1..SigBits |-> IF k = 1 THEN 1 ELSE 0]]

\* float(n) for an integer n of at most 31 bits: exact
DFromInt(n) ==
    IF n = 0 THEN DZero
    ELSE LET a == IF n < 0 THEN -n ELSE n
             b == NatBits(a)
         IN  RoundBits(IF n < 0 THEN 1 ELSE 0, Len(b) - 1, b, FALSE)

\* the quotient bits of num/den in [1,2), continued from those in acc up to
\* n bits; r is the remainder left after the bits in acc
RECURSIVE DivBits(_, _, _, _)
DivBits(r, den, n, acc) ==
    IF Len(acc) >= n THEN [bits |-> acc, rem |-> r]
    ELSE IF 2 * r >= den THEN DivBits(2 * r - den, den, n, Append(acc, 1))
    ELSE DivBits(2 * r, den, n, Append(acc, 0))

RECURSIVE ExpDown(_, _, _)
ExpDown(a, d, k) == IF a * Pow2(k) >= d THEN k ELSE ExpDown(a, d, k + 1)

RECURSIVE ExpUp(_, _, _)
ExpUp(a, d, k) == IF a < d * Pow2(k + 1) THEN k ELSE ExpUp(a, d, k + 1)

\* p / float(d) for small integers p and d > 0: the correctly rounded quotient
DDivInt(p, d) ==
    IF p = 0 THEN DZero
    ELSE LET a   == IF p < 0 THEN -p ELSE p
             s   == IF p < 0 THEN 1 ELSE 0
             dn  == IF a >= d THEN 0 ELSE ExpDown(a, d, 1)
             up  == IF a >= d THEN ExpUp(a, d, 0) ELSE 0
             num == a * Pow2(dn)
             den == d * Pow2(up)
             q   == DivBits(num - den, den, SigBits + 1, <<1>>)
         IN  RoundBits(s, up - dn, q.bits, q.rem # 0)

\* the bits of n * (bit sequence b), most significant first; acc holds the
\* product's low bits already computed, carry what they carried out
RECURSIVE MulCarry(_, _, _, _)
MulCarry(b, n, carry, acc) ==
    IF Len(acc) >= Len(b) THEN NatBits(carry) \o acc
    ELSE LET t == n * b[Len(b) - Len(acc)] + carry
         IN  MulCarry(b, n, t \div 2, <<t % 2>> \o acc)

\* float(n) * x for an integer 0 <= n < 2^17: the correctly rounded product
DMulInt(n, x) ==
    IF n = 0 \/ x.z THEN DZero
    ELSE LET prod == MulCarry(x.m, n, 0, << >>)
         IN  RoundBits(x.s, x.e + (Len(prod) - SigBits), prod, FALSE)

\* x < y
RECURSIVE BitsLess(_, _, _)
BitsLess(a, b, k) ==
    IF k > Len(a) THEN FALSE
    ELSE IF a[k] # b[k] THEN a[k] < b[k]
    ELSE BitsLess(a, b, k + 1)

MagLess(x, y) ==
    IF x.z THEN ~y.z
    ELSE IF y.z THEN FALSE
    ELSE IF x.e # y.e THEN x.e < y.e
    ELSE BitsLess(x.m, y.m, 1)

DLess(x, y) ==
    IF x.s = 1 /\ ~x.z
    THEN IF y.s = 1 /\ ~y.z THEN MagLess(y, x) ELSE TRUE
    ELSE IF y.s = 1 /\ ~y.z THEN FALSE ELSE MagLess(x, y)

\* Python's min(a, b) and max(a, b): the first argument wins a tie
DMin(a, b) == IF DLess(b, a) THEN b ELSE a
DMax(a, b) == IF DLess(a, b) THEN b ELSE a

\* int(x): truncation toward zero (|x| < 2^31)
DTrunc(x) ==
    IF x.z \/ x.e < 0 THEN 0
    ELSE LET v == BitsNat(x.m, x.e + 1)
         IN  IF x.s = 1 THEN -v ELSE v


(***************************************************************************)
(* Gamma ramps, their construction and their serialised form.              *)
(***************************************************************************)
RampLen == 256

WordMax == 65535

Channels == <<"Red", "Green", "Blue">>

Idx == 0..(RampLen - 1)

\* GAMMA_RAMP(): three zero-initialised arrays of RampLen WORDs
GAMMA_RAMP == [c \in {"Red", "Green", "Blue"} |-> [i \in Idx |-> 0]]

DOne == DFromInt(1)

DTenth == DDivInt(1, 10)

\* build_gamma_ramp(factor), factor a double
build_gamma_ramp(factor) ==
    LET f  == DMax(DZero, DMin(DOne, factor))
        ch == [i \in Idx |->
                 LET v == DTrunc(DMulInt(i * 256, f))
                 IN  IF WordMax < v THEN WordMax ELSE v]
    IN  [c \in {"Red", "Green", "Blue"} |-> ch]

\* _ramp_to_lists(ramp): a dict of three lists
_ramp_to_lists(ramp) ==
    [c \in {"Red", "Green", "Blue"} |-> [k \in 1..RampLen |-> ramp[c][k - 1]]]

\* variant of _lists_to_ramp: the store keeps the value modulo WordMax
_lists_to_ramp_mut(data) ==
    [c \in {"Red", "Green", "Blue"} |->
        [i \in Idx |-> data[c][i + 1] % WordMax]]

\* _lists_to_ramp(data): a store into a WORD array keeps the low 16 bits
_lists_to_ramp(data) ==
    [c \in {"Red", "Green", "Blue"} |->
        [i \in Idx |-> data[c][i + 1] % (WordMax + 1)]]

(***************************************************************************)
(* Files.  A path holds no file or a file with some content.               *)
(***************************************************************************)
NoFile == [kind |-> "none"]

JsonFile(data) == [kind |-> "json", data |-> data]

\* a file holding JSON text for a dict of lists of integers
DocFile(data) == [kind |-> "document", dict |-> data]

\* a file holding JSON text for anything else: a list, a number, a string,
\* null, or a dict with a channel that is not a list of integers
OtherJson == [kind |-> "jsonvalue"]

TextFile(text) == [kind |-> "text", text |-> text]

None == [kind |-> "None"]

\* variant of load_ramp_from_disk: a channel longer than RampLen passes
load_ramp_from_disk_mut(file) ==
    IF file.kind = "none" THEN None
    ELSE IF file.kind # "document" THEN None
    ELSE IF \E k \in 1..Len(Channels) :
                \/ Channels[k] \notin DOMAIN file.dict
                \/ Len(file.dict[Channels[k]]) < RampLen
         THEN None
    ELSE [kind |-> "ramp", ramp |-> _lists_to_ramp(file.dict)]

\* load_ramp_from_disk(): None, or the ramp read from the file at the path.
\* No file: None (line 143).  Text that json.load rejects, and JSON on which
\* the validation or _lists_to_ramp raises TypeError or KeyError: None
\* (line 155).  A dict of lists: the validation of lines 148-151.
load_ramp_from_disk(file) ==
    IF file.kind = "none" THEN None
    ELSE IF file.kind # "document" THEN None
    ELSE IF \E k \in 1..Len(Channels) :
                \/ Channels[k] \notin DOMAIN file.dict
                \/ Len(file.dict[Channels[k]]) # RampLen
         THEN None
    ELSE [kind |-> "ramp", ramp |-> _lists_to_ramp(file.dict)]

\* str(n) for n >= 0, as a sequence of characters
Digits == <<"0", "1", "2", "3", "4", "5", "6", "7", "8", "9">>

RECURSIVE str(_)
str(n) == IF n < 10 THEN <<Digits[n + 1]>>
          ELSE Append(str(n \div 10), Digits[(n % 10) + 1])

DigitVal(c) == CHOOSE d \in 0..9 : Digits[d + 1] = c

IsDigit(c) == \E d \in 0..9 : Digits[d + 1] = c

RECURSIVE DecVal(_, _)
DecVal(t, k) == IF k = 0 THEN 0 ELSE 10 * DecVal(t, k - 1) + DigitVal(t[k])

\* int(text.strip()): a ValueError for text that is not a decimal number
int(text) ==
    IF Len(text) = 0 \/ \E k \in 1..Len(text) : ~IsDigit(text[k])
    THEN [ok |-> FALSE, val |-> 0]
    ELSE [ok |-> TRUE, val |-> DecVal(text, Len(text))]


(***************************************************************************)
(* The machine: operating-system process ids, the display, the two safety  *)
(* files, and for every process id the state of the program running there. *)
(***************************************************************************)
MaxPid == 2

MaxLaunches == 2

Pids == 1..MaxPid

\* build_menu(): one item per pct in range(100, 0, -10)
MenuLevels == {10 * k : k \in 1..10}

\* the menu items a run of the whole program clicks
Clicks == {70, 100}

\* percentages a caller of set_brightness(pct / 100.0) passes: the menu's,
\* and values below, between and above them
Requests == MenuLevels \cup {-5, 0, 1, 9, 29, 57, 101, 150}

\* variant of sb_factor: no lower clamp
sb_factor_mut(pct) == DMin(DOne, DDivInt(pct, 100))

\* set_brightness(): factor = max(0.1, min(1.0, factor)), factor = pct / 100.0
sb_factor(pct) == DMax(DTenth, DMin(DOne, DDivInt(pct, 100)))

\* set_brightness(): int(factor * 100)
sb_percent(pct) == DTrunc(DMulInt(100, sb_factor(pct)))

\* restore_identity_ramp(): identity = build_gamma_ramp(1.0)
identity_ramp == build_gamma_ramp(DOne)

\* set_brightness(): ramp = build_gamma_ramp(factor), per request
sb_built == [r \in Requests |-> build_gamma_ramp(sb_factor(r))]

\* ramps the display may hold before the program ever ran: the linear ramp,
\* or a colour-calibrated one
NativeRamps ==
    {identity_ramp,
     [identity_ramp EXCEPT !["Blue"] = build_gamma_ramp(DDivInt(9, 10))["Blue"]]}

\* Every ramp a run can meet, listed once.  The state holds a ramp as its
\* index in this list, so two ramps in the state are equal exactly when
\* their tables are; 0 stands for a ramp that is not in the list.
\* the ramp of largest values a GAMMA_RAMP can hold
full_ramp == [c \in {"Red", "Green", "Blue"} |-> [i \in Idx |-> WordMax]]

RampSet ==
    NativeRamps \cup {GAMMA_RAMP, identity_ramp, full_ramp}
        \cup {sb_built[r] : r \in Requests}

RECURSIVE SeqOf(_)
SeqOf(S) == IF S = {} THEN << >>
            ELSE LET x == CHOOSE y \in S : TRUE IN <<x>> \o SeqOf(S \ {x})

Ramps == SeqOf(RampSet)

RampIds == 0..Len(Ramps)

\* the index of x in the sequence T, 0 when it is not there
IndexIn(T, x) == IF \E k \in 1..Len(T) : T[k] = x
                 THEN CHOOSE k \in 1..Len(T) : T[k] = x
                 ELSE 0

Ref(ramp) == IndexIn(Ramps, ramp)

zero_ramp == Ref(GAMMA_RAMP)

identity == Ref(identity_ramp)

\* set_brightness(): the ramp handed to _apply_ramp, per request
sb_ramp == [r \in Requests |-> Ref(sb_built[r])]

sb_level == [r \in Requests |-> sb_percent(r)]

\* save_ramp_to_disk(ramp): json.dump(_ramp_to_lists(ramp)); a complete
\* backup file JsonFile(k) holds the text of Document(k), made of ramp k
Document(k) == DocFile(_ramp_to_lists(Ramps[k]))

\* load_ramp_from_disk() on the document made of ramp k
LoadTable ==
    [k \in RampIds |->
        IF k = 0 THEN [kind |-> "ramp", ramp |-> 0]
        ELSE LET r == load_ramp_from_disk(Document(k))
             IN  IF r.kind = "ramp" THEN [kind |-> "ramp", ramp |-> Ref(r.ramp)]
                 ELSE None]

\* load_ramp_from_disk() on a file of the state
load(file) ==
    IF file.kind = "json" THEN LoadTable[file.data]
    ELSE LET r == load_ramp_from_disk(file)
         IN  IF r.kind = "ramp" THEN [kind |-> "ramp", ramp |-> Ref(r.ramp)]
             ELSE None

VARIABLES
    display,    \* the ramp the display driver holds
    lockfile,   \* file at LOCK_PATH
    backup,     \* file at RAMP_BACKUP_PATH
    tmpfile,    \* per pid: the mkstemp file of the running save_ramp_to_disk
    proc,       \* per pid: "free", "wizard" (this program) or "other"
    launches,   \* launches of the program so far
    st,         \* per pid: the program's globals, locals and position
    hist,       \* per pid: history of the running session
    dead        \* history: the session that was killed last

vars == <<display, lockfile, backup, tmpfile, proc, launches, st, hist, dead>>

\* module-level state at import (lines 76-79, 294) and empty locals
Fresh ==
    [pc |-> "none", caller |-> "none", finalizing |-> FALSE, hooks |-> FALSE,
     request |-> 100, ok |-> FALSE, saved |-> None, stale |-> FALSE,
     recovered |-> FALSE,
     original_ramp |-> zero_ramp,
     _ramp_modified |-> FALSE,
     _last_applied_brightness |-> 100,
     _cleanup_done |-> FALSE,
     hdc |-> 0,     \* device handles obtained from GetDC and not released
     fn |-> "none"] \* the storage function called directly, if any

NoWorld == [display |-> 0, lockfile |-> NoFile, backup |-> NoFile]

NoCall == [modified |-> FALSE, level |-> 100]

NoCount == [restore |-> 0, release |-> 0, remove |-> 0]

NoHist ==
    [applies |-> << >>,         \* applies made by recover_from_crash
     pre |-> NoCall,            \* session state when the running call began
     sig_at |-> "none",         \* the function the first signal interrupted
     cleanup_complete |-> FALSE,\* a cleanup() ran to its last line
     cu_count |-> NoCount,      \* steps cleanup() performed
     dimmed |-> FALSE,          \* a set_brightness ramp was accepted
     captured |-> FALSE,        \* GetDeviceGammaRamp succeeded
     rejected |-> FALSE,        \* cleanup()'s restore apply was rejected
     owner_free |-> FALSE,      \* the killed session's pid was free at is_stale
     at_launch |-> NoWorld,     \* display and files when main() began
     released |-> 0,            \* ReleaseDC calls of the display call made
     fault |-> "none"]          \* where an OS call raised

NoDead == [pid |-> 0, orig |-> zero_ramp, started |-> FALSE, dimmed |-> FALSE,
           captured |-> FALSE, cleaning |-> FALSE]

Snapshot(p) == [modified |-> st[p]._ramp_modified,
                level |-> st[p]._last_applied_brightness]

\* the process ids OpenProcess returns a handle for
Live == {q \in Pids : proc[q] # "free"}

Init ==
    /\ display \in {Ref(r) : r \in NativeRamps}
    /\ lockfile = NoFile
    /\ backup = NoFile
    /\ tmpfile = [p \in Pids |-> NoFile]
    /\ proc = [p \in Pids |-> "free"]
    /\ launches = 0
    /\ st = [p \in Pids |-> Fresh]
    /\ hist = [p \in Pids |-> NoHist]
    /\ dead = NoDead

At(p, l) == proc[p] = "wizard" /\ st[p].pc = l

\* the program is started under a free process id, no other instance running;
\* main() begins at recover_from_crash()
Launch(p) ==
    /\ proc[p] = "free"
    /\ \A q \in Pids : proc[q] # "wizard"
    /\ launches < MaxLaunches
    /\ launches' = launches + 1
    /\ proc' = [proc EXCEPT ![p] = "wizard"]
    /\ st' = [st EXCEPT ![p] = [Fresh EXCEPT !.pc = "is_stale_exists"]]
    /\ hist' = [hist EXCEPT ![p] = [NoHist EXCEPT !.at_launch =
                   [display |-> display, lockfile |-> lockfile, backup |-> backup]]]
    /\ UNCHANGED <<display, lockfile, backup, tmpfile, dead>>

\* variant of lock_read_stale: a record that is not a number counts as not
\* stale
lock_read_stale_mut(file, live, self) ==
    IF file.kind = "none" THEN TRUE
    ELSE LET pid == int(file.text)
         IN  IF ~pid.ok THEN FALSE
             ELSE IF pid.val \in live
                  THEN IF pid.val = self THEN FALSE ELSE FALSE
                  ELSE TRUE

\* is_stale_lockfile() from the open() on: the file may be gone by now
lock_read_stale(file, live, self) ==
    IF file.kind = "none" THEN TRUE
    ELSE LET pid == int(file.text)
         IN  IF ~pid.ok THEN TRUE
             ELSE IF pid.val \in live
                  THEN IF pid.val = self THEN FALSE ELSE FALSE
                  ELSE TRUE

\* is_stale_lockfile() on an unchanging file system
is_stale_lockfile(file, live, self) ==
    IF file.kind = "none" THEN FALSE ELSE lock_read_stale(file, live, self)

OwnerFree == dead.pid # 0 /\ dead.pid \notin Live

\* variant of recover_branch: the test of is_stale_lockfile() is inverted
recover_branch_mut(stale) == IF stale THEN "save_original" ELSE "recover_load"

\* recover_from_crash(): if not is_stale_lockfile(): return False
recover_branch(stale) == IF stale THEN "recover_load" ELSE "save_original"

\* recover_from_crash() -> is_stale_lockfile(): os.path.exists(LOCK_PATH)
IsStaleExists(p) ==
    /\ At(p, "is_stale_exists")
    /\ st' = [st EXCEPT ![p].pc = IF lockfile.kind = "none"
                                  THEN recover_branch(FALSE)
                                  ELSE "is_stale_read",
                        ![p].stale = FALSE,
                        ![p].recovered = FALSE]
    /\ hist' = [hist EXCEPT ![p].owner_free = OwnerFree]
    /\ UNCHANGED <<display, lockfile, backup, tmpfile, proc, launches, dead>>

\* is_stale_lockfile(): read the pid, OpenProcess; recover_from_crash()
\* returns False when the record is not stale
IsStaleRead(p) ==
    /\ At(p, "is_stale_read")
    /\ LET stale == lock_read_stale(lockfile, Live, p)
       IN  st' = [st EXCEPT ![p].pc = recover_branch(stale),
                            ![p].stale = stale,
                            ![p].recovered = FALSE]
    /\ hist' = [hist EXCEPT ![p].owner_free = OwnerFree]
    /\ UNCHANGED <<display, lockfile, backup, tmpfile, proc, launches, dead>>

\* recover_from_crash(): saved = load_ramp_from_disk(); if saved: ...
RecoverLoad(p) ==
    /\ At(p, "recover_load")
    /\ LET ld == load(backup)
       IN  st' = [st EXCEPT ![p].saved = ld,
                            ![p].pc = IF ld.kind = "ramp" THEN "recover_apply"
                                      ELSE "recover_identity"]
    /\ UNCHANGED <<display, lockfile, backup, tmpfile, proc, launches, hist, dead>>

\* _apply_ramp(ramp): SetDeviceGammaRamp accepts the ramp or rejects it and
\* leaves the display as it was
_apply_ramp(ramp, accept) ==
    display' = IF accept THEN ramp ELSE display

\* variant of RecoverApply: a rejected backup is not followed by the
\* identity ramp
RecoverApply_mut(p) ==
    /\ At(p, "recover_apply")
    /\ \E accept \in BOOLEAN :
        /\ _apply_ramp(st[p].saved.ramp, accept)
        /\ st' = [st EXCEPT ![p].ok = accept, ![p].pc = "recover_rmlock"]
        /\ hist' = [hist EXCEPT ![p].applies =
                       Append(@, [ramp |-> st[p].saved.ramp, ok |-> accept])]
    /\ UNCHANGED <<lockfile, backup, tmpfile, proc, launches, dead>>

\* recover_from_crash(): ok = _apply_ramp(saved); on failure the identity ramp
RecoverApply(p) ==
    /\ At(p, "recover_apply")
    /\ \E accept \in BOOLEAN :
        /\ _apply_ramp(st[p].saved.ramp, accept)
        /\ st' = [st EXCEPT ![p].ok = accept,
                            ![p].pc = IF accept THEN "recover_rmlock"
                                      ELSE "recover_identity"]
        /\ hist' = [hist EXCEPT ![p].applies =
                       Append(@, [ramp |-> st[p].saved.ramp, ok |-> accept])]
    /\ UNCHANGED <<lockfile, backup, tmpfile, proc, launches, dead>>

\* recover_from_crash(): restore_identity_ramp()
RecoverIdentity(p) ==
    /\ At(p, "recover_identity")
    /\ \E accept \in BOOLEAN :
        /\ _apply_ramp(identity, accept)
        /\ hist' = [hist EXCEPT ![p].applies =
                       Append(@, [ramp |-> identity, ok |-> accept])]
    /\ st' = [st EXCEPT ![p].pc = "recover_rmlock"]
    /\ UNCHANGED <<lockfile, backup, tmpfile, proc, launches, dead>>

\* remove_lockfile()
remove_lockfile == lockfile' = NoFile

\* remove_ramp_backup()
remove_ramp_backup == backup' = NoFile

\* recover_from_crash(): remove_lockfile()
RecoverRemoveLock(p) ==
    /\ At(p, "recover_rmlock")
    /\ remove_lockfile
    /\ st' = [st EXCEPT ![p].pc = "recover_rmbackup"]
    /\ UNCHANGED <<display, backup, tmpfile, proc, launches, hist, dead>>

\* recover_from_crash(): remove_ramp_backup(); return True
RecoverRemoveBackup(p) ==
    /\ At(p, "recover_rmbackup")
    /\ remove_ramp_backup
    /\ st' = [st EXCEPT ![p].pc = "save_original", ![p].recovered = TRUE]
    /\ UNCHANGED <<display, lockfile, tmpfile, proc, launches, hist, dead>>

(***************************************************************************)
(* Manual restore: the program started with --restore.                     *)
(***************************************************************************)
\* main(): "--restore" in sys.argv; no hook is registered on this path
LaunchRestore(p) ==
    /\ proc[p] = "free"
    /\ \A q \in Pids : proc[q] # "wizard"
    /\ launches < MaxLaunches
    /\ launches' = launches + 1
    /\ proc' = [proc EXCEPT ![p] = "wizard"]
    /\ st' = [st EXCEPT ![p] = [Fresh EXCEPT !.pc = "mr_load"]]
    /\ hist' = [hist EXCEPT ![p] = [NoHist EXCEPT !.at_launch =
                   [display |-> display, lockfile |-> lockfile, backup |-> backup]]]
    /\ UNCHANGED <<display, lockfile, backup, tmpfile, dead>>

\* main(): saved = load_ramp_from_disk(); if saved: ...
ManualLoad(p) ==
    /\ At(p, "mr_load")
    /\ LET ld == load(backup)
       IN  st' = [st EXCEPT ![p].saved = ld,
                            ![p].pc = IF ld.kind = "ramp" THEN "mr_apply"
                                      ELSE "mr_identity"]
    /\ UNCHANGED <<display, lockfile, backup, tmpfile, proc, launches, hist, dead>>

\* variant of ManualApply: a rejected backup is not followed by the
\* identity ramp
ManualApply_mut(p) ==
    /\ At(p, "mr_apply")
    /\ \E accept \in BOOLEAN :
        /\ _apply_ramp(st[p].saved.ramp, accept)
        /\ st' = [st EXCEPT ![p].ok = accept, ![p].pc = "mr_rmlock"]
        /\ hist' = [hist EXCEPT ![p].applies =
                       Append(@, [ramp |-> st[p].saved.ramp, ok |-> accept])]
    /\ UNCHANGED <<lockfile, backup, tmpfile, proc, launches, dead>>

\* main(): ok = _apply_ramp(saved); if not ok: restore_identity_ramp()
ManualApply(p) ==
    /\ At(p, "mr_apply")
    /\ \E accept \in BOOLEAN :
        /\ _apply_ramp(st[p].saved.ramp, accept)
        /\ st' = [st EXCEPT ![p].ok = accept,
                            ![p].pc = IF accept THEN "mr_rmlock"
                                      ELSE "mr_identity"]
        /\ hist' = [hist EXCEPT ![p].applies =
                       Append(@, [ramp |-> st[p].saved.ramp, ok |-> accept])]
    /\ UNCHANGED <<lockfile, backup, tmpfile, proc, launches, dead>>

\* main(): restore_identity_ramp()
ManualIdentity(p) ==
    /\ At(p, "mr_identity")
    /\ \E accept \in BOOLEAN :
        /\ _apply_ramp(identity, accept)
        /\ hist' = [hist EXCEPT ![p].applies =
                       Append(@, [ramp |-> identity, ok |-> accept])]
    /\ st' = [st EXCEPT ![p].pc = "mr_rmlock"]
    /\ UNCHANGED <<lockfile, backup, tmpfile, proc, launches, dead>>

\* main(): remove_lockfile()
ManualRemoveLock(p) ==
    /\ At(p, "mr_rmlock")
    /\ remove_lockfile
    /\ st' = [st EXCEPT ![p].pc = "mr_rmbackup"]
    /\ UNCHANGED <<display, backup, tmpfile, proc, launches, hist, dead>>

\* main(): remove_ramp_backup(), print
ManualRemoveBackup(p) ==
    /\ At(p, "mr_rmbackup")
    /\ remove_ramp_backup
    /\ st' = [st EXCEPT ![p].pc = "mr_return"]
    /\ UNCHANGED <<display, lockfile, tmpfile, proc, launches, hist, dead>>

\* main(): return; the process ends
ManualReturn(p) ==
    /\ At(p, "mr_return")
    /\ proc' = [proc EXCEPT ![p] = "free"]
    /\ st' = [st EXCEPT ![p] = Fresh]
    /\ hist' = [hist EXCEPT ![p] = NoHist]
    /\ UNCHANGED <<display, lockfile, backup, tmpfile, launches, dead>>

\* save_original_ramp(): GetDeviceGammaRamp fills original_ramp, or fails
SaveOriginal(p) ==
    /\ At(p, "save_original")
    /\ \E success \in BOOLEAN :
        IF success
        THEN /\ st' = [st EXCEPT ![p].original_ramp = display,
                                 ![p].pc = "save_mkstemp"]
             /\ hist' = [hist EXCEPT ![p].captured = TRUE]
        ELSE /\ st' = [st EXCEPT ![p].pc = "lock_open"]
             /\ UNCHANGED hist
    /\ UNCHANGED <<display, lockfile, backup, tmpfile, proc, launches, dead>>

\* save_ramp_to_disk(): tempfile.mkstemp creates an empty file
SaveMkstemp(p) ==
    /\ At(p, "save_mkstemp")
    /\ tmpfile' = [tmpfile EXCEPT ![p] = TextFile(<< >>)]
    /\ st' = [st EXCEPT ![p].pc = "save_dump"]
    /\ UNCHANGED <<display, lockfile, backup, proc, launches, hist, dead>>

\* variant of SaveDumpPart: the text is written at RAMP_BACKUP_PATH itself
SaveDumpPart_mut(p) ==
    /\ At(p, "save_dump")
    /\ backup' = [kind |-> "partial"]
    /\ st' = [st EXCEPT ![p].pc = "save_close"]
    /\ UNCHANGED <<display, lockfile, tmpfile, proc, launches, hist, dead>>

\* save_ramp_to_disk(): json.dump has written part of the text
SaveDumpPart(p) ==
    /\ At(p, "save_dump")
    /\ tmpfile' = [tmpfile EXCEPT ![p] = [kind |-> "partial"]]
    /\ st' = [st EXCEPT ![p].pc = "save_close"]
    /\ UNCHANGED <<display, lockfile, backup, proc, launches, hist, dead>>

\* save_ramp_to_disk(): the with block closes the file, the text is complete
SaveDumpClose(p) ==
    /\ At(p, "save_close")
    /\ tmpfile' = [tmpfile EXCEPT
                     ![p] = JsonFile(st[p].original_ramp)]
    /\ st' = [st EXCEPT ![p].pc = "save_remove"]
    /\ UNCHANGED <<display, lockfile, backup, proc, launches, hist, dead>>

\* save_ramp_to_disk(): if os.path.exists(path): os.remove(path)
SaveRemoveDest(p) ==
    /\ At(p, "save_remove")
    /\ backup' = NoFile
    /\ st' = [st EXCEPT ![p].pc = "save_rename"]
    /\ UNCHANGED <<display, lockfile, tmpfile, proc, launches, hist, dead>>

\* where control continues when save_ramp_to_disk returns: in main(), after
\* save_original_ramp, at create_lockfile()
save_return(c) ==
    CASE c = "disk"    -> "disk_saved"
      [] c = "display" -> "so_finally_true"
      [] c = "storage" -> "st_returned"
      [] OTHER         -> "lock_open"

\* variant of SaveRename: the backup never reaches RAMP_BACKUP_PATH
SaveRename_mut(p) ==
    /\ At(p, "save_rename")
    /\ backup' = backup
    /\ tmpfile' = [tmpfile EXCEPT ![p] = NoFile]
    /\ st' = [st EXCEPT ![p].pc = "lock_open"]
    /\ UNCHANGED <<display, lockfile, proc, launches, hist, dead>>

\* save_ramp_to_disk(): os.rename(tmp_path, path); on Windows it fails when
\* the destination exists, and the temp file is unlinked
SaveRename(p) ==
    /\ At(p, "save_rename")
    /\ backup' = IF backup.kind = "none" THEN tmpfile[p] ELSE backup
    /\ tmpfile' = [tmpfile EXCEPT ![p] = NoFile]
    /\ st' = [st EXCEPT ![p].pc = save_return(st[p].caller),
                        ![p].ok = (backup.kind = "none")]
    /\ UNCHANGED <<display, lockfile, proc, launches, hist, dead>>

\* create_lockfile(): open(LOCK_PATH, "w") creates or truncates the file.
\* recover_from_crash() is over: its locals and its history are dropped.
LockOpen(p) ==
    /\ At(p, "lock_open")
    /\ lockfile' = TextFile(<< >>)
    /\ st' = [st EXCEPT ![p].pc = "lock_write", ![p].saved = None,
                        ![p].ok = FALSE, ![p].stale = FALSE,
                        ![p].recovered = FALSE]
    /\ hist' = [hist EXCEPT ![p].applies = << >>, ![p].owner_free = FALSE,
                            ![p].at_launch = NoWorld]
    /\ dead' = NoDead
    /\ UNCHANGED <<display, backup, tmpfile, proc, launches>>

\* variant of LockWrite: the process id is not written
LockWrite_mut(p) ==
    /\ At(p, "lock_write")
    /\ lockfile' = lockfile
    /\ st' = [st EXCEPT ![p].pc = "register"]
    /\ UNCHANGED <<display, backup, tmpfile, proc, launches, hist, dead>>

\* create_lockfile(): f.write(str(os.getpid())), closed by the with block
LockWrite(p) ==
    /\ At(p, "lock_write")
    /\ lockfile' = TextFile(str(p))
    /\ st' = [st EXCEPT ![p].pc = "register"]
    /\ UNCHANGED <<display, backup, tmpfile, proc, launches, hist, dead>>

\* main(): atexit.register(cleanup), signal.signal(...), icon.run()
Register(p) ==
    /\ At(p, "register")
    /\ st' = [st EXCEPT ![p].pc = "run", ![p].hooks = TRUE]
    /\ UNCHANGED <<display, lockfile, backup, tmpfile, proc, launches, hist, dead>>


(***************************************************************************)
(* Runtime brightness control (tray menu callbacks).                       *)
(***************************************************************************)
\* set_brightness(pct / 100.0) is called, pct one of S
set_brightness(p, S) ==
    /\ At(p, "run")
    /\ \E r \in S :
        st' = [st EXCEPT ![p].request = r, ![p].pc = "sb_apply"]
    /\ hist' = [hist EXCEPT ![p].pre = Snapshot(p)]
    /\ UNCHANGED <<display, lockfile, backup, tmpfile, proc, launches, dead>>

\* make_on_click(pct).on_click: a menu item is clicked
MenuClick(p) == set_brightness(p, Clicks)

\* set_brightness(): ok = _apply_ramp(ramp)
SetBrightnessApply(p) ==
    /\ At(p, "sb_apply")
    /\ \E accept \in BOOLEAN :
        /\ _apply_ramp(sb_ramp[st[p].request], accept)
        /\ st' = [st EXCEPT ![p].ok = accept, ![p].pc = "sb_if"]
        /\ hist' = [hist EXCEPT ![p].dimmed = @ \/ accept]
    /\ UNCHANGED <<lockfile, backup, tmpfile, proc, launches, dead>>

\* set_brightness(): if ok: _ramp_modified = True
SetBrightnessFlag(p) ==
    /\ At(p, "sb_if")
    /\ st' = IF st[p].ok
             THEN [st EXCEPT ![p]._ramp_modified = TRUE, ![p].pc = "sb_level"]
             ELSE [st EXCEPT ![p].pc = "sb_ret"]
    /\ UNCHANGED <<display, lockfile, backup, tmpfile, proc, launches, hist, dead>>

\* set_brightness(): _last_applied_brightness = int(factor * 100)
SetBrightnessLevel(p) ==
    /\ At(p, "sb_level")
    /\ st' = [st EXCEPT ![p]._last_applied_brightness = sb_level[st[p].request],
                        ![p].pc = "sb_ret"]
    /\ UNCHANGED <<display, lockfile, backup, tmpfile, proc, launches, hist, dead>>

\* set_brightness() has returned bool(ok); on_click returns to the tray loop
SetBrightnessReturn(p) ==
    /\ At(p, "sb_ret")
    /\ st' = [st EXCEPT ![p].pc = "run", ![p].request = 100, ![p].ok = FALSE]
    /\ hist' = [hist EXCEPT ![p].pre = NoCall]
    /\ UNCHANGED <<display, lockfile, backup, tmpfile, proc, launches, dead>>

\* restore_original_ramp(): ok = _apply_ramp(original_ramp)
restore_apply(p, next) ==
    /\ \E accept \in BOOLEAN :
        /\ _apply_ramp(st[p].original_ramp, accept)
        /\ st' = [st EXCEPT ![p].ok = accept, ![p].pc = next]
    /\ UNCHANGED <<lockfile, backup, tmpfile, proc, launches, dead>>

\* variant of restore_flag: the flag is cleared whatever the apply returned
restore_flag_mut(p, next) ==
    /\ st' = [st EXCEPT ![p]._ramp_modified = FALSE, ![p].pc = next]
    /\ UNCHANGED <<display, lockfile, backup, tmpfile, proc, launches, hist, dead>>

\* restore_original_ramp(): if ok: _ramp_modified = False
restore_flag(p, next) ==
    /\ st' = [st EXCEPT ![p]._ramp_modified = IF st[p].ok THEN FALSE ELSE @,
                        ![p].pc = next]
    /\ UNCHANGED <<display, lockfile, backup, tmpfile, proc, launches, hist, dead>>

\* on_restore: restore_original_ramp() is called
OnRestore(p) ==
    /\ At(p, "run")
    /\ st' = [st EXCEPT ![p].pc = "ro_apply"]
    /\ hist' = [hist EXCEPT ![p].pre = Snapshot(p)]
    /\ UNCHANGED <<display, lockfile, backup, tmpfile, proc, launches, dead>>

OnRestoreApply(p) ==
    /\ At(p, "ro_apply")
    /\ restore_apply(p, "ro_if")
    /\ UNCHANGED hist

OnRestoreFlag(p) ==
    /\ At(p, "ro_if")
    /\ restore_flag(p, "ro_ret")

\* restore_original_ramp() has returned ok; on_restore returns to the tray loop
OnRestoreReturn(p) ==
    /\ At(p, "ro_ret")
    /\ st' = [st EXCEPT ![p].pc = "run", ![p].ok = FALSE]
    /\ hist' = [hist EXCEPT ![p].pre = NoCall]
    /\ UNCHANGED <<display, lockfile, backup, tmpfile, proc, launches, dead>>

(***************************************************************************)
(* Cleanup and the termination paths.                                      *)
(***************************************************************************)
\* where control continues when cleanup() returns to its caller
ReturnSite(c) ==
    CASE c = "on_exit" -> "icon_stop"
      [] c = "main"    -> "py_exit"
      [] c = "signal"  -> "sys_exit"
      [] OTHER         -> "atexit_done"

Bump(n) == IF n < 2 THEN n + 1 ELSE n

\* variant of cleanup_guard: the one-shot flag is not looked at
cleanup_guard_mut(done) == FALSE

\* cleanup(): if _cleanup_done: return
cleanup_guard(done) == done

\* on_exit: cleanup() is called from the Exit menu item
OnExit(p) ==
    /\ At(p, "run")
    /\ st' = [st EXCEPT ![p].caller = "on_exit", ![p].pc = "cu_check"]
    /\ UNCHANGED <<display, lockfile, backup, tmpfile, proc, launches, hist, dead>>

\* main(): icon.run() returns and cleanup() is called
RunReturns(p) ==
    /\ At(p, "run")
    /\ st' = [st EXCEPT ![p].caller = "main", ![p].pc = "cu_check"]
    /\ UNCHANGED <<display, lockfile, backup, tmpfile, proc, launches, hist, dead>>

\* cleanup(): the one-shot guard
CleanupCheck(p) ==
    /\ At(p, "cu_check")
    /\ st' = [st EXCEPT ![p].pc = IF cleanup_guard(st[p]._cleanup_done)
                                  THEN ReturnSite(st[p].caller) ELSE "cu_set"]
    /\ UNCHANGED <<display, lockfile, backup, tmpfile, proc, launches, hist, dead>>

\* cleanup(): _cleanup_done = True
CleanupSet(p) ==
    /\ At(p, "cu_set")
    /\ st' = [st EXCEPT ![p]._cleanup_done = TRUE, ![p].pc = "cu_if_mod"]
    /\ UNCHANGED <<display, lockfile, backup, tmpfile, proc, launches, hist, dead>>

\* cleanup(): if _ramp_modified: restore_original_ramp()
CleanupIfModified(p) ==
    /\ At(p, "cu_if_mod")
    /\ st' = [st EXCEPT ![p].pc = IF st[p]._ramp_modified THEN "cu_ro_apply"
                                  ELSE "cu_rmlock"]
    /\ hist' = [hist EXCEPT ![p].pre = Snapshot(p)]
    /\ UNCHANGED <<display, lockfile, backup, tmpfile, proc, launches, dead>>

CleanupRestoreApply(p) ==
    /\ At(p, "cu_ro_apply")
    /\ restore_apply(p, "cu_ro_if")
    /\ hist' = [hist EXCEPT ![p].cu_count.restore = Bump(@),
                            ![p].rejected = @ \/ ~st'[p].ok]

CleanupRestoreFlag(p) ==
    /\ At(p, "cu_ro_if")
    /\ restore_flag(p, "cu_ro_ret")

\* variant of CleanupRestoreReturn: cleanup() gives up when the restore was
\* rejected
CleanupRestoreReturn_mut(p) ==
    /\ At(p, "cu_ro_ret")
    /\ st' = [st EXCEPT ![p].pc = IF st[p].ok THEN "cu_rmlock"
                                  ELSE ReturnSite(st[p].caller),
                        ![p].ok = FALSE]
    /\ hist' = [hist EXCEPT ![p].pre = NoCall]
    /\ UNCHANGED <<display, lockfile, backup, tmpfile, proc, launches, dead>>

\* restore_original_ramp() has returned; cleanup() discards the result
CleanupRestoreReturn(p) ==
    /\ At(p, "cu_ro_ret")
    /\ st' = [st EXCEPT ![p].pc = "cu_rmlock", ![p].ok = FALSE]
    /\ hist' = [hist EXCEPT ![p].pre = NoCall]
    /\ UNCHANGED <<display, lockfile, backup, tmpfile, proc, launches, dead>>

\* cleanup(): remove_lockfile()
CleanupRemoveLock(p) ==
    /\ At(p, "cu_rmlock")
    /\ remove_lockfile
    /\ st' = [st EXCEPT ![p].pc = "cu_rmbackup"]
    /\ hist' = [hist EXCEPT ![p].cu_count.release = Bump(@), ![p].pre = NoCall]
    /\ UNCHANGED <<display, backup, tmpfile, proc, launches, dead>>

\* cleanup(): remove_ramp_backup(), "Cleanup complete", return
CleanupRemoveBackup(p) ==
    /\ At(p, "cu_rmbackup")
    /\ remove_ramp_backup
    /\ st' = [st EXCEPT ![p].pc = ReturnSite(st[p].caller)]
    /\ hist' = [hist EXCEPT ![p].cu_count.remove = Bump(@),
                            ![p].cleanup_complete = TRUE]
    /\ UNCHANGED <<display, lockfile, tmpfile, proc, launches, dead>>

\* on_exit: icon.stop(); icon.run() returns; main() calls cleanup()
IconStop(p) ==
    /\ At(p, "icon_stop")
    /\ st' = [st EXCEPT ![p].caller = "main", ![p].pc = "cu_check"]
    /\ UNCHANGED <<display, lockfile, backup, tmpfile, proc, launches, hist, dead>>

\* the process ends; its memory is gone
Terminate(p) ==
    /\ proc' = [proc EXCEPT ![p] = "free"]
    /\ st' = [st EXCEPT ![p] = Fresh]
    /\ hist' = [hist EXCEPT ![p] = NoHist]
    /\ dead' = NoDead
    /\ UNCHANGED <<display, lockfile, backup, tmpfile, launches>>

\* the interpreter's exit runs the atexit function cleanup(), once
Finalize(p) ==
    IF st[p].finalizing
    THEN Terminate(p)
    ELSE /\ st' = [st EXCEPT ![p].finalizing = TRUE, ![p].caller = "atexit",
                             ![p].pc = "cu_check"]
         /\ UNCHANGED <<display, lockfile, backup, tmpfile, proc, launches,
                        hist, dead>>

\* main() returns
PyExit(p) ==
    /\ At(p, "py_exit")
    /\ Finalize(p)

\* _signal_handler: sys.exit(0) after cleanup(): SystemExit unwinds whatever
\* the signal interrupted
SysExit(p) ==
    /\ At(p, "sys_exit")
    /\ Finalize(p)

\* the atexit call of cleanup() has returned
AtexitDone(p) ==
    /\ At(p, "atexit_done")
    /\ Terminate(p)

\* the function a signal interrupts, as far as the history tells them apart
Interrupted(l) ==
    IF l \in {"sb_apply", "sb_if", "sb_level"} THEN "set_brightness" ELSE "other"

\* SIGINT, SIGTERM or SIGBREAK, run between two bytecodes after the handlers
\* are installed: _signal_handler calls cleanup(); the interrupted frames
\* are never resumed
Signal(p) ==
    /\ proc[p] = "wizard"
    /\ st[p].hooks
    /\ st' = [st EXCEPT ![p].caller = "signal", ![p].pc = "cu_check",
                        ![p].request = 100, ![p].ok = FALSE]
    /\ hist' = [hist EXCEPT ![p].pre = NoCall,
                            ![p].sig_at = IF @ = "none"
                                          THEN Interrupted(st[p].pc) ELSE @]
    /\ UNCHANGED <<display, lockfile, backup, tmpfile, proc, launches, dead>>

\* the process is killed (TerminateProcess, power loss): nothing more runs
Kill(p) ==
    /\ proc[p] = "wizard"
    /\ proc' = [proc EXCEPT ![p] = "free"]
    /\ st' = [st EXCEPT ![p] = Fresh]
    /\ hist' = [hist EXCEPT ![p] = NoHist]
    /\ dead' = [pid |-> p, orig |-> st[p].original_ramp, started |-> st[p].hooks,
                dimmed |-> hist[p].dimmed, captured |-> hist[p].captured,
                cleaning |-> st[p]._cleanup_done]
    /\ UNCHANGED <<display, lockfile, backup, tmpfile, launches>>

\* an unrelated program starts under the process id the ownership record
\* names (no other unrelated process is visible to the program)
OtherStart(p) ==
    /\ proc[p] = "free"
    /\ lockfile = TextFile(str(p))
    /\ proc' = [proc EXCEPT ![p] = "other"]
    /\ UNCHANGED <<display, lockfile, backup, tmpfile, launches, st, hist, dead>>

\* an unrelated program ends
OtherEnd(p) ==
    /\ proc[p] = "other"
    /\ proc' = [proc EXCEPT ![p] = "free"]
    /\ UNCHANGED <<display, lockfile, backup, tmpfile, launches, st, hist, dead>>

Next ==
    \E p \in Pids :
        \/ Launch(p)
        \/ IsStaleExists(p)
        \/ IsStaleRead(p)
        \/ RecoverLoad(p)
        \/ RecoverApply(p)
        \/ RecoverIdentity(p)
        \/ RecoverRemoveLock(p)
        \/ RecoverRemoveBackup(p)
        \/ SaveOriginal(p)
        \/ SaveMkstemp(p)
        \/ SaveDumpPart(p)
        \/ SaveDumpClose(p)
        \/ SaveRemoveDest(p)
        \/ SaveRename(p)
        \/ LockOpen(p)
        \/ LockWrite(p)
        \/ Register(p)
        \/ MenuClick(p)
        \/ SetBrightnessApply(p)
        \/ SetBrightnessFlag(p)
        \/ SetBrightnessLevel(p)
        \/ SetBrightnessReturn(p)
        \/ OnRestore(p)
        \/ OnRestoreApply(p)
        \/ OnRestoreFlag(p)
        \/ OnRestoreReturn(p)
        \/ OnExit(p)
        \/ RunReturns(p)
        \/ CleanupCheck(p)
        \/ CleanupSet(p)
        \/ CleanupIfModified(p)
        \/ CleanupRestoreApply(p)
        \/ CleanupRestoreFlag(p)
        \/ CleanupRestoreReturn(p)
        \/ CleanupRemoveLock(p)
        \/ CleanupRemoveBackup(p)
        \/ IconStop(p)
        \/ PyExit(p)
        \/ SysExit(p)
        \/ AtexitDone(p)
        \/ Signal(p)
        \/ Kill(p)
        \/ OtherStart(p)
        \/ OtherEnd(p)

Spec == Init /\ [][Next]_vars

(***************************************************************************)
(* The brightness functions called in any order, with any request, on a    *)
(* session whose startup has completed (the state main() reaches at        *)
(* icon.run() on a first launch that captured the display's ramp).         *)
(***************************************************************************)
InitCalls ==
    /\ display \in {Ref(r) : r \in NativeRamps}
    /\ lockfile = TextFile(str(1))
    /\ backup = JsonFile(display)
    /\ tmpfile = [p \in Pids |-> NoFile]
    /\ proc = [p \in Pids |-> IF p = 1 THEN "wizard" ELSE "free"]
    /\ launches = 1
    /\ st = [p \in Pids |->
               IF p = 1 THEN [Fresh EXCEPT !.pc = "run", !.hooks = TRUE,
                                          !.original_ramp = display]
               ELSE Fresh]
    /\ hist = [p \in Pids |->
                 IF p = 1 THEN [NoHist EXCEPT !.captured = TRUE] ELSE NoHist]
    /\ dead = NoDead

\* set_brightness(pct / 100.0) called with any of the requests
DirectCall(p) == set_brightness(p, Requests)

NextCalls ==
    \E p \in Pids :
        \/ DirectCall(p)
        \/ SetBrightnessApply(p)
        \/ SetBrightnessFlag(p)
        \/ SetBrightnessLevel(p)
        \/ SetBrightnessReturn(p)
        \/ OnRestore(p)
        \/ OnRestoreApply(p)
        \/ OnRestoreFlag(p)
        \/ OnRestoreReturn(p)

SpecCalls == InitCalls /\ [][NextCalls]_vars

(***************************************************************************)
(* Repair: the program started, normally or with --restore, on a display   *)
(* and on files as an earlier session or a damaged disk left them.  A      *)
(* normal start is followed up to the return of recover_from_crash().      *)
(***************************************************************************)
\* a file that is not JSON text
Garbage == [kind |-> "partial"]

LeftDisplays == {identity, sb_ramp[70]} \cup {Ref(r) : r \in NativeRamps}

LeftBackups == {NoFile, Garbage} \cup {JsonFile(Ref(r)) : r \in NativeRamps}

LeftRecords == {NoFile, TextFile(<< >>), TextFile(str(MaxPid))}

InitRepair ==
    /\ display \in LeftDisplays
    /\ lockfile \in LeftRecords
    /\ backup \in LeftBackups
    /\ tmpfile = [p \in Pids |-> NoFile]
    /\ proc = [p \in Pids |-> "free"]
    /\ launches = 0
    /\ st = [p \in Pids |-> Fresh]
    /\ hist = [p \in Pids |-> NoHist]
    /\ dead = NoDead

NextRepair ==
    \E p \in Pids :
        \/ Launch(p)
        \/ IsStaleExists(p)
        \/ IsStaleRead(p)
        \/ RecoverLoad(p)
        \/ RecoverApply(p)
        \/ RecoverIdentity(p)
        \/ RecoverRemoveLock(p)
        \/ RecoverRemoveBackup(p)
        \/ LaunchRestore(p)
        \/ ManualLoad(p)
        \/ ManualApply(p)
        \/ ManualIdentity(p)
        \/ ManualRemoveLock(p)
        \/ ManualRemoveBackup(p)
        \/ ManualReturn(p)

SpecRepair == InitRepair /\ [][NextRepair]_vars

(***************************************************************************)
(* Disk: save_ramp_to_disk(ramp) and load_ramp_from_disk() called directly *)
(* by process 1, on a backup path holding any of DiskFiles.  The ramp      *)
(* passed to save_ramp_to_disk is held in original_ramp, the result of     *)
(* load_ramp_from_disk in saved.                                           *)
(***************************************************************************)
\* the dict json.dump writes for the identity ramp
IdentityLists == _ramp_to_lists(identity_ramp)

\* the dict d without channel c
Without(d, c) == [x \in DOMAIN d \ {c} |-> d[x]]

\* the dict d with channel c cut or zero-padded to n entries
Resized(d, c, n) ==
    [d EXCEPT ![c] = [i \in 1..n |-> IF i <= Len(d[c]) THEN d[c][i] ELSE 0]]

\* the dict d with one more key
WithKey(d, key) ==
    [x \in DOMAIN d \cup {key} |-> IF x \in DOMAIN d THEN d[x] ELSE d["Red"]]

\* the dict d with the entries of channel c beyond the range of a WORD
Wide(d, c) == [d EXCEPT ![c] = [i \in 1..Len(d[c]) |-> d[c][i] + WordMax + 1]]

DiskDicts ==
    {IdentityLists, WithKey(IdentityLists, "Alpha"), Wide(IdentityLists, "Red"),
     Without(Without(IdentityLists, "Red"), "Green"),
     Without(Without(Without(WithKey(IdentityLists, "Alpha"), "Red"),
                     "Green"), "Blue")}
    \cup {Without(IdentityLists, c) : c \in {"Red", "Green", "Blue"}}
    \cup {Resized(IdentityLists, c, n) :
             c \in {"Red", "Green", "Blue"},
             n \in {1, RampLen - 1, RampLen + 1}}

DiskRamps == {Ref(r) : r \in NativeRamps \cup {GAMMA_RAMP, full_ramp}}
                 \cup {sb_ramp[70]}

DiskFiles ==
    {NoFile, Garbage, TextFile(<< >>), OtherJson}
    \cup {DocFile(d) : d \in DiskDicts}
    \cup {JsonFile(k) : k \in DiskRamps}

InitDisk ==
    /\ display = identity
    /\ lockfile = NoFile
    /\ backup \in DiskFiles
    /\ tmpfile = [p \in Pids |-> NoFile]
    /\ proc = [p \in Pids |-> IF p = 1 THEN "wizard" ELSE "free"]
    /\ launches = 1
    /\ st = [p \in Pids |->
               IF p = 1 THEN [Fresh EXCEPT !.pc = "disk", !.caller = "disk"]
               ELSE Fresh]
    /\ hist = [p \in Pids |->
                 IF p = 1 THEN [NoHist EXCEPT !.at_launch.backup = backup]
                 ELSE NoHist]
    /\ dead = NoDead

\* save_ramp_to_disk(ramp) is called
DiskSave(p) ==
    /\ At(p, "disk")
    /\ \E k \in DiskRamps :
         st' = [st EXCEPT ![p].original_ramp = k, ![p].pc = "save_mkstemp",
                          ![p].ok = FALSE, ![p].saved = None]
    /\ UNCHANGED <<display, lockfile, backup, tmpfile, proc, launches, hist,
                   dead>>

\* load_ramp_from_disk() is called and returns
DiskLoad(p) ==
    /\ At(p, "disk")
    /\ st' = [st EXCEPT ![p].saved = load(backup), ![p].pc = "disk_loaded"]
    /\ UNCHANGED <<display, lockfile, backup, tmpfile, proc, launches, hist,
                   dead>>

\* the caller goes on after either call
DiskReturn(p) ==
    /\ At(p, "disk_saved") \/ At(p, "disk_loaded")
    /\ st' = [st EXCEPT ![p].pc = "disk"]
    /\ UNCHANGED <<display, lockfile, backup, tmpfile, proc, launches, hist,
                   dead>>

NextDisk ==
    \E p \in Pids :
        \/ DiskSave(p)
        \/ SaveMkstemp(p)
        \/ SaveDumpPart(p)
        \/ SaveDumpClose(p)
        \/ SaveRemoveDest(p)
        \/ SaveRename(p)
        \/ DiskLoad(p)
        \/ DiskReturn(p)

SpecDisk == InitDisk /\ [][NextDisk]_vars

(***************************************************************************)
(* Display: save_original_ramp() and _apply_ramp(ramp) called directly by  *)
(* process 1, statement by statement.  The OS call accepts, reports        *)
(* failure, or raises; the raise leaves through the finally clause.        *)
(***************************************************************************)
Outcomes == {"accept", "reject", "fault"}

InitDisplay ==
    /\ display \in LeftDisplays
    /\ lockfile = NoFile
    /\ backup \in {NoFile, JsonFile(identity)}
    /\ tmpfile = [p \in Pids |-> NoFile]
    /\ proc = [p \in Pids |-> IF p = 1 THEN "wizard" ELSE "free"]
    /\ launches = 1
    /\ st = [p \in Pids |->
               IF p = 1 THEN [Fresh EXCEPT !.pc = "display", !.caller = "display"]
               ELSE Fresh]
    /\ hist = [p \in Pids |-> NoHist]
    /\ dead = NoDead

\* _apply_ramp(ramp) is called: hdc = GetDC(0)
ApplyGetDC(p) ==
    /\ At(p, "display")
    /\ \E r \in Clicks :
         st' = [st EXCEPT ![p].request = r, ![p].hdc = @ + 1,
                          ![p].ok = FALSE, ![p].pc = "ar_try"]
    /\ hist' = [hist EXCEPT ![p].released = 0]
    /\ UNCHANGED <<display, lockfile, backup, tmpfile, proc, launches, dead>>

\* _apply_ramp(): ok = SetDeviceGammaRamp(hdc, ramp); return bool(ok)
ApplySet(p) ==
    /\ At(p, "ar_try")
    /\ \E o \in Outcomes :
         /\ display' = IF o = "accept" THEN sb_ramp[st[p].request] ELSE display
         /\ st' = [st EXCEPT ![p].ok = (o = "accept"),
                             ![p].pc = IF o = "fault" THEN "ar_finally_raise"
                                       ELSE "ar_finally"]
    /\ UNCHANGED <<lockfile, backup, tmpfile, proc, launches, hist, dead>>

\* save_original_ramp() is called: hdc = GetDC(0)
ReadGetDC(p) ==
    /\ At(p, "display")
    /\ st' = [st EXCEPT ![p].hdc = @ + 1, ![p].ok = FALSE, ![p].pc = "so_try"]
    /\ hist' = [hist EXCEPT ![p].released = 0]
    /\ UNCHANGED <<display, lockfile, backup, tmpfile, proc, launches, dead>>

\* save_original_ramp(): GetDeviceGammaRamp(hdc, original_ramp); on success
\* save_ramp_to_disk(original_ramp) follows, on failure return False
ReadGet(p) ==
    /\ At(p, "so_try")
    /\ \E o \in Outcomes :
         st' = [st EXCEPT
                  ![p].original_ramp = IF o = "accept" THEN display ELSE @,
                  ![p].pc = CASE o = "accept" -> "save_mkstemp"
                              [] o = "reject" -> "so_finally_false"
                              [] o = "fault"  -> "so_finally_raise"]
    /\ UNCHANGED <<display, lockfile, backup, tmpfile, proc, launches, hist,
                   dead>>

\* the statement after the finally clause: the return of the value, or the
\* exception going on to the caller
AfterFinally(l) ==
    CASE l = "ar_finally"       -> "ar_returned"
      [] l = "ar_finally_raise" -> "ar_raised"
      [] l = "so_finally_true"  -> "so_returned"
      [] l = "so_finally_false" -> "so_returned"
      [] l = "so_finally_raise" -> "so_raised"

InFinally(p) ==
    \E l \in {"ar_finally", "ar_finally_raise", "so_finally_true",
               "so_finally_false", "so_finally_raise"} : At(p, l)

\* variant of DisplayFinally: ReleaseDC after the try block, with no finally
DisplayFinally_mut(p) ==
    /\ InFinally(p)
    /\ LET raising == st[p].pc \in {"ar_finally_raise", "so_finally_raise"}
       IN  /\ st' = [st EXCEPT
                       ![p].hdc = IF raising THEN @ ELSE @ - 1,
                       ![p].ok = IF st[p].pc = "ar_finally" THEN @
                                 ELSE st[p].pc = "so_finally_true",
                       ![p].pc = AfterFinally(@)]
           /\ hist' = [hist EXCEPT
                         ![p].released = IF raising THEN @ ELSE @ + 1]
    /\ UNCHANGED <<display, lockfile, backup, tmpfile, proc, launches, dead>>

\* finally: ReleaseDC(0, hdc), in _apply_ramp and in save_original_ramp
DisplayFinally(p) ==
    /\ InFinally(p)
    /\ st' = [st EXCEPT ![p].hdc = @ - 1,
                        ![p].ok = IF st[p].pc = "ar_finally" THEN @
                                  ELSE st[p].pc = "so_finally_true",
                        ![p].pc = AfterFinally(@)]
    /\ hist' = [hist EXCEPT ![p].released = @ + 1]
    /\ UNCHANGED <<display, lockfile, backup, tmpfile, proc, launches, dead>>

\* the caller goes on with the value returned, or handles the exception
DisplayReturn(p) ==
    /\ \E l \in {"ar_returned", "ar_raised", "so_returned", "so_raised"} :
         At(p, l)
    /\ st' = [st EXCEPT ![p].pc = "display"]
    /\ UNCHANGED <<display, lockfile, backup, tmpfile, proc, launches, hist,
                   dead>>

NextDisplay ==
    \E p \in Pids :
        \/ ApplyGetDC(p)
        \/ ApplySet(p)
        \/ ReadGetDC(p)
        \/ ReadGet(p)
        \/ SaveMkstemp(p)
        \/ SaveDumpPart(p)
        \/ SaveDumpClose(p)
        \/ SaveRemoveDest(p)
        \/ SaveRename(p)
        \/ DisplayFinally(p)
        \/ DisplayReturn(p)

SpecDisplay == InitDisplay /\ [][NextDisplay]_vars

(***************************************************************************)
(* Faults: the program started on what an earlier session left, with       *)
(* SetDeviceGammaRamp raising inside _apply_ramp during the repair of      *)
(* recover_from_crash() and during the restore step of cleanup().          *)
(* _apply_ramp has try/finally and no except clause, and neither have      *)
(* restore_original_ramp, restore_identity_ramp, cleanup and               *)
(* recover_from_crash: the exception goes up to the caller of those.       *)
(***************************************************************************)
\* recover_from_crash(): _apply_ramp(saved) raises; the exception leaves
\* recover_from_crash() and main()
RecoverApplyFault(p) ==
    /\ At(p, "recover_apply")
    /\ st' = [st EXCEPT ![p].pc = "uncaught"]
    /\ hist' = [hist EXCEPT ![p].fault = "recovery"]
    /\ UNCHANGED <<display, lockfile, backup, tmpfile, proc, launches, dead>>

\* recover_from_crash(): restore_identity_ramp() raises
RecoverIdentityFault(p) ==
    /\ At(p, "recover_identity")
    /\ st' = [st EXCEPT ![p].pc = "uncaught"]
    /\ hist' = [hist EXCEPT ![p].fault = "recovery"]
    /\ UNCHANGED <<display, lockfile, backup, tmpfile, proc, launches, dead>>

\* where an exception leaving cleanup() arrives: main() has no handler,
\* the atexit machinery reports it and goes on, on_exit hands it to the
\* tray library
RaiseSite(c) ==
    CASE c = "main"    -> "uncaught"
      [] c = "on_exit" -> "callback_raised"
      [] OTHER         -> "atexit_done"

\* cleanup(): restore_original_ramp() raises out of _apply_ramp; lines
\* 309-310 are not reached
CleanupRestoreFault(p) ==
    /\ At(p, "cu_ro_apply")
    /\ st' = [st EXCEPT ![p].pc = RaiseSite(st[p].caller)]
    /\ hist' = [hist EXCEPT ![p].cu_count.restore = Bump(@),
                            ![p].fault = "cleanup"]
    /\ UNCHANGED <<display, lockfile, backup, tmpfile, proc, launches, dead>>

\* the tray library, which is not part of the source, got the exception of
\* on_exit: it goes on serving the menu, or icon.run() raises it in main()
CallbackRaised(p) ==
    /\ At(p, "callback_raised")
    /\ \E l \in {"run", "uncaught"} : st' = [st EXCEPT ![p].pc = l]
    /\ UNCHANGED <<display, lockfile, backup, tmpfile, proc, launches, hist,
                   dead>>

\* an exception no frame handles ends main(): the interpreter exits and runs
\* the atexit functions registered so far
Uncaught(p) ==
    /\ At(p, "uncaught")
    /\ IF st[p].hooks THEN Finalize(p) ELSE Terminate(p)

NextFaults ==
    \E p \in Pids :
        \/ Launch(p)
        \/ IsStaleExists(p)
        \/ IsStaleRead(p)
        \/ RecoverLoad(p)
        \/ RecoverApply(p)
        \/ RecoverApplyFault(p)
        \/ RecoverIdentity(p)
        \/ RecoverIdentityFault(p)
        \/ RecoverRemoveLock(p)
        \/ RecoverRemoveBackup(p)
        \/ SaveOriginal(p)
        \/ SaveMkstemp(p)
        \/ SaveDumpPart(p)
        \/ SaveDumpClose(p)
        \/ SaveRemoveDest(p)
        \/ SaveRename(p)
        \/ LockOpen(p)
        \/ LockWrite(p)
        \/ Register(p)
        \/ MenuClick(p)
        \/ SetBrightnessApply(p)
        \/ SetBrightnessFlag(p)
        \/ SetBrightnessLevel(p)
        \/ SetBrightnessReturn(p)
        \/ OnExit(p)
        \/ RunReturns(p)
        \/ CleanupCheck(p)
        \/ CleanupSet(p)
        \/ CleanupIfModified(p)
        \/ CleanupRestoreApply(p)
        \/ CleanupRestoreFault(p)
        \/ CleanupRestoreFlag(p)
        \/ CleanupRestoreReturn(p)
        \/ CleanupRemoveLock(p)
        \/ CleanupRemoveBackup(p)
        \/ CallbackRaised(p)
        \/ Uncaught(p)
        \/ IconStop(p)
        \/ PyExit(p)
        \/ AtexitDone(p)

SpecFaults == InitRepair /\ [][NextFaults]_vars

(***************************************************************************)
(* Build: build_gamma_ramp(factor) called directly by process 1 and        *)
(* followed statement by statement, one turn of the loop at a time.  The   *)
(* frame holds the argument, the local factor, the loop index and the      *)
(* ramp under construction.                                                *)
(***************************************************************************)
\* the arguments, as quotients of two integers: num / den in Python
BuildArgs ==
    {<<-5, 100>>, <<0, 1>>, <<3, 100>>, <<29, 100>>, <<1, 2>>, <<2, 3>>,
     <<7, 10>>, <<1, 1>>, <<3, 2>>, <<2, 1>>}

BuildFrame ==
    [pc |-> "build", caller |-> "build", num |-> 0, den |-> 1, arg |-> DZero,
     factor |-> DZero, i |-> 0, ramp |-> GAMMA_RAMP]

InitBuild ==
    /\ display = identity
    /\ lockfile = NoFile
    /\ backup = NoFile
    /\ tmpfile = [p \in Pids |-> NoFile]
    /\ proc = [p \in Pids |-> IF p = 1 THEN "wizard" ELSE "free"]
    /\ launches = 1
    /\ st = [p \in Pids |-> IF p = 1 THEN BuildFrame ELSE Fresh]
    /\ hist = [p \in Pids |-> NoHist]
    /\ dead = NoDead

\* build_gamma_ramp(factor) is called
BuildCall(p) ==
    /\ At(p, "build")
    /\ \E a \in BuildArgs :
         st' = [st EXCEPT ![p] = [BuildFrame EXCEPT
                                   !.num = a[1], !.den = a[2],
                                   !.arg = DDivInt(a[1], a[2]),
                                   !.factor = DDivInt(a[1], a[2]),
                                   !.pc = "bg_clamp"]]
    /\ UNCHANGED <<display, lockfile, backup, tmpfile, proc, launches, hist,
                   dead>>

\* factor = max(0.0, min(1.0, factor)); ramp = GAMMA_RAMP()
BuildClamp(p) ==
    /\ At(p, "bg_clamp")
    /\ st' = [st EXCEPT ![p].factor = DMax(DZero, DMin(DOne, @)),
                        ![p].ramp = GAMMA_RAMP, ![p].i = 0,
                        ![p].pc = "bg_loop"]
    /\ UNCHANGED <<display, lockfile, backup, tmpfile, proc, launches, hist,
                   dead>>

\* min(65535, int(i * 256 * factor))
build_value(i, factor) ==
    LET v == DTrunc(DMulInt(i * 256, factor))
    IN  IF WordMax < v THEN WordMax ELSE v

\* variant of BuildStep: the value is not stored in the Blue channel
BuildStep_mut(p) ==
    /\ At(p, "bg_loop")
    /\ st[p].i < RampLen
    /\ LET value == build_value(st[p].i, st[p].factor)
       IN  st' = [st EXCEPT ![p].ramp.Red[st[p].i] = value,
                            ![p].ramp.Green[st[p].i] = value,
                            ![p].i = @ + 1]
    /\ UNCHANGED <<display, lockfile, backup, tmpfile, proc, launches, hist,
                   dead>>

\* one turn of for i in range(256): the value goes to the three channels
BuildStep(p) ==
    /\ At(p, "bg_loop")
    /\ st[p].i < RampLen
    /\ LET value == build_value(st[p].i, st[p].factor)
       IN  st' = [st EXCEPT ![p].ramp.Red[st[p].i] = value,
                            ![p].ramp.Green[st[p].i] = value,
                            ![p].ramp.Blue[st[p].i] = value,
                            ![p].i = @ + 1]
    /\ UNCHANGED <<display, lockfile, backup, tmpfile, proc, launches, hist,
                   dead>>

\* the loop is over: return ramp
BuildReturn(p) ==
    /\ At(p, "bg_loop")
    /\ st[p].i = RampLen
    /\ st' = [st EXCEPT ![p].pc = "bg_returned"]
    /\ UNCHANGED <<display, lockfile, backup, tmpfile, proc, launches, hist,
                   dead>>

\* the caller goes on
BuildDone(p) ==
    /\ At(p, "bg_returned")
    /\ st' = [st EXCEPT ![p] = BuildFrame]
    /\ UNCHANGED <<display, lockfile, backup, tmpfile, proc, launches, hist,
                   dead>>

NextBuild ==
    \E p \in Pids :
        \/ BuildCall(p)
        \/ BuildClamp(p)
        \/ BuildStep(p)
        \/ BuildReturn(p)
        \/ BuildDone(p)

SpecBuild == InitBuild /\ [][NextBuild]_vars

(***************************************************************************)
(* Storage: the five storage functions called directly by process 1 on     *)
(* files as an earlier session left them, every operating-system call on   *)
(* a file succeeding or raising OSError.  An exception is caught by the    *)
(* except clause of the function when the clause names its class or a      *)
(* base of it; otherwise it leaves the function.  hist.at_launch holds     *)
(* the files as they were when the call began.                             *)
(***************************************************************************)
\* the class an except clause names catches the exception: OSError and
\* ValueError derive from Exception
Catches(clause, exc) == clause = "Exception" \/ clause = exc

\* variant of handler: remove_lockfile catches ValueError only
handler_mut(fn) ==
    CASE fn = "save_ramp_to_disk"   -> "Exception"
      [] fn = "load_ramp_from_disk" -> "Exception"
      [] fn = "remove_ramp_backup"  -> "OSError"
      [] fn = "create_lockfile"     -> "OSError"
      [] fn = "remove_lockfile"     -> "ValueError"

\* the except clause of each storage function
handler(fn) ==
    CASE fn = "save_ramp_to_disk"   -> "Exception"
      [] fn = "load_ramp_from_disk" -> "Exception"
      [] fn = "remove_ramp_backup"  -> "OSError"
      [] fn = "create_lockfile"     -> "OSError"
      [] fn = "remove_lockfile"     -> "OSError"

\* where control is after exception exc was raised in function fn
AfterRaise(fn, exc) ==
    IF Catches(handler(fn), exc) THEN "st_returned" ELSE "st_raised"

InitStorage ==
    /\ display = identity
    /\ lockfile \in LeftRecords
    /\ backup \in LeftBackups
    /\ tmpfile = [p \in Pids |-> NoFile]
    /\ proc = [p \in Pids |-> IF p = 1 THEN "wizard" ELSE "free"]
    /\ launches = 1
    /\ st = [p \in Pids |->
               IF p = 1 THEN [Fresh EXCEPT !.pc = "storage", !.caller = "storage"]
               ELSE Fresh]
    /\ hist = [p \in Pids |-> NoHist]
    /\ dead = NoDead

\* the frame and the history of a call of fn that begins
Called(p, fn) ==
    /\ At(p, "storage")
    /\ hist' = [hist EXCEPT ![p] = [NoHist EXCEPT !.at_launch =
                   [display |-> display, lockfile |-> lockfile,
                    backup |-> backup]]]

\* save_ramp_to_disk(ramp) is called
StorageSave(p) ==
    /\ Called(p, "save_ramp_to_disk")
    /\ \E k \in {identity, sb_ramp[70]} :
         st' = [st EXCEPT ![p].fn = "save_ramp_to_disk",
                          ![p].original_ramp = k, ![p].ok = FALSE,
                          ![p].saved = None, ![p].pc = "save_mkstemp"]
    /\ UNCHANGED <<display, lockfile, backup, tmpfile, proc, launches, dead>>

\* save_ramp_to_disk(): tempfile.mkstemp raises; no temp file was made;
\* return False
SaveMkstempFail(p) ==
    /\ At(p, "save_mkstemp")
    /\ st' = [st EXCEPT ![p].ok = FALSE,
                        ![p].pc = AfterRaise("save_ramp_to_disk", "OSError")]
    /\ hist' = [hist EXCEPT ![p].fault = "mkstemp"]
    /\ UNCHANGED <<display, lockfile, backup, tmpfile, proc, launches, dead>>

\* save_ramp_to_disk(): json.dump or the close of the file raises; the temp
\* file holds what was written so far
SaveDumpFail(p) ==
    /\ At(p, "save_dump") \/ At(p, "save_close")
    /\ st' = [st EXCEPT ![p].pc = "save_unlink"]
    /\ hist' = [hist EXCEPT ![p].fault = "dump"]
    /\ UNCHANGED <<display, lockfile, backup, tmpfile, proc, launches, dead>>

\* save_ramp_to_disk(): os.remove(path) raises
SaveRemoveDestFail(p) ==
    /\ At(p, "save_remove")
    /\ backup # NoFile
    /\ st' = [st EXCEPT ![p].pc = "save_unlink"]
    /\ hist' = [hist EXCEPT ![p].fault = "remove"]
    /\ UNCHANGED <<display, lockfile, backup, tmpfile, proc, launches, dead>>

\* save_ramp_to_disk(): os.rename raises
SaveRenameFail(p) ==
    /\ At(p, "save_rename")
    /\ st' = [st EXCEPT ![p].pc = "save_unlink"]
    /\ hist' = [hist EXCEPT ![p].fault = "rename"]
    /\ UNCHANGED <<display, lockfile, backup, tmpfile, proc, launches, dead>>

\* save_ramp_to_disk(): except Exception: os.unlink(tmp_path), whose OSError
\* is passed over; raise; the outer clause returns False
SaveUnlink(p) ==
    /\ At(p, "save_unlink")
    /\ \E unlinked \in BOOLEAN :
         tmpfile' = [tmpfile EXCEPT ![p] = IF unlinked THEN NoFile ELSE @]
    /\ st' = [st EXCEPT ![p].ok = FALSE,
                        ![p].pc = AfterRaise("save_ramp_to_disk", "OSError")]
    /\ UNCHANGED <<display, lockfile, backup, proc, launches, hist, dead>>

\* what reading the file raises: OSError when open or read fails, ValueError
\* when json.load rejects the text
LoadRaises(file, readable) ==
    IF ~readable THEN "OSError"
    ELSE IF file.kind \in {"partial", "text"} THEN "ValueError"
    ELSE "none"

\* load_ramp_from_disk() is called and runs to its end
StorageLoad(p) ==
    /\ Called(p, "load_ramp_from_disk")
    /\ \E readable \in BOOLEAN :
         IF backup = NoFile
         THEN st' = [st EXCEPT ![p].fn = "load_ramp_from_disk",
                               ![p].saved = None, ![p].pc = "st_returned"]
         ELSE LET exc == LoadRaises(backup, readable)
              IN  st' = [st EXCEPT
                           ![p].fn = "load_ramp_from_disk",
                           ![p].ok = readable,
                           ![p].saved = IF exc = "none" THEN load(backup)
                                        ELSE None,
                           ![p].pc = IF exc = "none" THEN "st_returned"
                                     ELSE AfterRaise("load_ramp_from_disk", exc)]
    /\ UNCHANGED <<display, lockfile, backup, tmpfile, proc, launches, dead>>

\* remove_ramp_backup() is called and runs to its end
StorageRemoveBackup(p) ==
    /\ Called(p, "remove_ramp_backup")
    /\ \E removable \in BOOLEAN :
         IF backup = NoFile \/ removable
         THEN /\ remove_ramp_backup
              /\ st' = [st EXCEPT ![p].fn = "remove_ramp_backup",
                                  ![p].ok = TRUE, ![p].pc = "st_returned"]
         ELSE /\ backup' = backup
              /\ st' = [st EXCEPT
                          ![p].fn = "remove_ramp_backup", ![p].ok = FALSE,
                          ![p].pc = AfterRaise("remove_ramp_backup", "OSError")]
    /\ UNCHANGED <<display, lockfile, tmpfile, proc, launches, dead>>

\* remove_lockfile() is called and runs to its end
StorageRemoveLock(p) ==
    /\ Called(p, "remove_lockfile")
    /\ \E removable \in BOOLEAN :
         IF lockfile = NoFile \/ removable
         THEN /\ remove_lockfile
              /\ st' = [st EXCEPT ![p].fn = "remove_lockfile",
                                  ![p].ok = TRUE, ![p].pc = "st_returned"]
         ELSE /\ lockfile' = lockfile
              /\ st' = [st EXCEPT
                          ![p].fn = "remove_lockfile", ![p].ok = FALSE,
                          ![p].pc = AfterRaise("remove_lockfile", "OSError")]
    /\ UNCHANGED <<display, backup, tmpfile, proc, launches, dead>>

\* create_lockfile() is called and runs to its end: open(LOCK_PATH, "w")
\* raises, or truncates the file and the write raises, or the id is written
StorageCreateLock(p) ==
    /\ Called(p, "create_lockfile")
    /\ \E o \in {"open_fails", "write_fails", "written"} :
         /\ lockfile' = CASE o = "open_fails"  -> lockfile
                           [] o = "write_fails" -> TextFile(<< >>)
                           [] o = "written"     -> TextFile(str(p))
         /\ st' = [st EXCEPT
                     ![p].fn = "create_lockfile", ![p].ok = (o = "written"),
                     ![p].pc = IF o = "written" THEN "st_returned"
                               ELSE AfterRaise("create_lockfile", "OSError")]
    /\ UNCHANGED <<display, backup, tmpfile, proc, launches, dead>>

\* the caller goes on after the call returned; an exception that left the
\* function ends the caller
StorageReturn(p) ==
    /\ At(p, "st_returned")
    /\ st' = [st EXCEPT ![p].pc = "storage"]
    /\ UNCHANGED <<display, lockfile, backup, tmpfile, proc, launches, hist,
                   dead>>

NextStorage ==
    \E p \in Pids :
        \/ StorageSave(p)
        \/ SaveMkstemp(p)
        \/ SaveMkstempFail(p)
        \/ SaveDumpPart(p)
        \/ SaveDumpClose(p)
        \/ SaveDumpFail(p)
        \/ SaveRemoveDest(p)
        \/ SaveRemoveDestFail(p)
        \/ SaveRename(p)
        \/ SaveRenameFail(p)
        \/ SaveUnlink(p)
        \/ StorageLoad(p)
        \/ StorageRemoveBackup(p)
        \/ StorageRemoveLock(p)
        \/ StorageCreateLock(p)
        \/ StorageReturn(p)

SpecStorage == InitStorage /\ [][NextStorage]_vars

(***************************************************************************)
(* Shared: several processes of the program at once.  Nothing in main()    *)
(* stops a launch while another instance runs, so a session or a manual    *)
(* restore begins whatever the other processes are doing; the steps of     *)
(* the processes interleave.  No signal and no kill here.                  *)
(***************************************************************************)
\* main() begins in a new process, beside the processes that run
LaunchBeside(p) ==
    /\ proc[p] = "free"
    /\ launches < MaxLaunches
    /\ launches' = launches + 1
    /\ proc' = [proc EXCEPT ![p] = "wizard"]
    /\ st' = [st EXCEPT ![p] = [Fresh EXCEPT !.pc = "is_stale_exists"]]
    /\ hist' = [hist EXCEPT ![p] = [NoHist EXCEPT !.at_launch =
                   [display |-> display, lockfile |-> lockfile, backup |-> backup]]]
    /\ UNCHANGED <<display, lockfile, backup, tmpfile, dead>>

\* main() with --restore begins in a new process, beside the processes that
\* run
LaunchRestoreBeside(p) ==
    /\ proc[p] = "free"
    /\ launches < MaxLaunches
    /\ launches' = launches + 1
    /\ proc' = [proc EXCEPT ![p] = "wizard"]
    /\ st' = [st EXCEPT ![p] = [Fresh EXCEPT !.pc = "mr_load"]]
    /\ hist' = [hist EXCEPT ![p] = [NoHist EXCEPT !.at_launch =
                   [display |-> display, lockfile |-> lockfile, backup |-> backup]]]
    /\ UNCHANGED <<display, lockfile, backup, tmpfile, dead>>

NextShared ==
    \E p \in Pids :
        \/ LaunchBeside(p)
        \/ LaunchRestoreBeside(p)
        \/ IsStaleExists(p)
        \/ IsStaleRead(p)
        \/ RecoverLoad(p)
        \/ RecoverApply(p)
        \/ RecoverIdentity(p)
        \/ RecoverRemoveLock(p)
        \/ RecoverRemoveBackup(p)
        \/ ManualLoad(p)
        \/ ManualApply(p)
        \/ ManualIdentity(p)
        \/ ManualRemoveLock(p)
        \/ ManualRemoveBackup(p)
        \/ ManualReturn(p)
        \/ SaveOriginal(p)
        \/ SaveMkstemp(p)
        \/ SaveDumpPart(p)
        \/ SaveDumpClose(p)
        \/ SaveRemoveDest(p)
        \/ SaveRename(p)
        \/ LockOpen(p)
        \/ LockWrite(p)
        \/ Register(p)
        \/ MenuClick(p)
        \/ SetBrightnessApply(p)
        \/ SetBrightnessFlag(p)
        \/ SetBrightnessLevel(p)
        \/ SetBrightnessReturn(p)
        \/ OnExit(p)
        \/ RunReturns(p)
        \/ CleanupCheck(p)
        \/ CleanupSet(p)
        \/ CleanupIfModified(p)
        \/ CleanupRestoreApply(p)
        \/ CleanupRestoreFlag(p)
        \/ CleanupRestoreReturn(p)
        \/ CleanupRemoveLock(p)
        \/ CleanupRemoveBackup(p)
        \/ IconStop(p)
        \/ PyExit(p)
        \/ AtexitDone(p)

SpecShared == Init /\ [][NextShared]_vars


(***************************************************************************)
(* Properties.                                                             *)
(***************************************************************************)
Exits(p) == proc[p] = "wizard" /\ Terminate(p)

\* C1: cleanup() called again after it ran changes nothing: the call returns
\* at the guard, leaving the display, the files and the session as they were;
\* no session performs the restore attempt, the record release or the backup
\* removal of cleanup() more than once, and a session that ends without a
\* signal, after two or more calls, has performed release and removal once.
C1_CleanupOnce ==
    /\ [](\A p \in Pids : /\ hist[p].cu_count.restore <= 1
                          /\ hist[p].cu_count.release <= 1
                          /\ hist[p].cu_count.remove <= 1)
    /\ [][\A p \in Pids :
            /\ (CleanupCheck(p) /\ st[p]._cleanup_done) =>
                  /\ display' = display /\ lockfile' = lockfile
                  /\ backup' = backup /\ tmpfile' = tmpfile
                  /\ hist' = hist
                  /\ st'[p] = [st[p] EXCEPT !.pc = ReturnSite(st[p].caller)]
            /\ (Exits(p) /\ hist[p].sig_at = "none") =>
                  /\ hist[p].cu_count.release = 1
                  /\ hist[p].cu_count.remove = 1]_vars

C1_Witness ==
    \E p \in Pids : /\ At(p, "atexit_done")
                    /\ hist[p].sig_at = "none"
                    /\ hist[p].cu_count = [restore |-> 1, release |-> 1, remove |-> 1]

\* C2: a session ends on a handled termination path only after a cleanup()
\* ran its whole sequence to the end.
C2_ExitAfterCleanup ==
    [][\A p \in Pids : Exits(p) => hist[p].cleanup_complete]_vars

\* C3: a session that a handled signal interrupted inside set_brightness
\* leaves, when it has exited, the original ramp it captured on the display,
\* unless the display rejected the restore.
C3_SignalInSetBrightness ==
    [][\A p \in Pids :
         (Exits(p) /\ hist[p].sig_at = "set_brightness" /\ hist[p].captured
                   /\ ~hist[p].rejected)
             => display = st[p].original_ramp]_vars

\* C4: when recover_from_crash() found the record stale: a backup that loads
\* is the one applied first, and it is the ramp the file was made of; the
\* identity ramp is applied exactly when nothing loaded or that apply was
\* rejected; the display shows the last accepted apply; and at the return the
\* record and the backup are gone.
C4_Recovery ==
    \A p \in Pids :
        /\ At(p, "recover_apply") =>
              /\ backup.kind = "json"
              /\ st[p].saved = [kind |-> "ramp", ramp |-> backup.data]
        /\ (At(p, "save_original") /\ st[p].recovered) =>
              LET a  == hist[p].applies
                  sv == st[p].saved
              IN  /\ lockfile = NoFile
                  /\ backup = NoFile
                  /\ Len(a) >= 1
                  /\ IF sv.kind = "ramp"
                     THEN /\ a[1].ramp = sv.ramp
                          /\ IF a[1].ok THEN Len(a) = 1
                             ELSE Len(a) = 2 /\ a[2].ramp = identity
                     ELSE Len(a) = 1 /\ a[1].ramp = identity
                  /\ a[Len(a)].ok => display = a[Len(a)].ramp

C4_Witness ==
    \E p \in Pids : /\ At(p, "save_original")
                    /\ st[p].recovered
                    /\ st[p].saved.kind = "ramp"
                    /\ Len(hist[p].applies) = 2
                    /\ ~hist[p].applies[1].ok

\* C5: when is_stale_lockfile() reported not stale, recover_from_crash()
\* returns at once, False: it applies no ramp, and the display, the record
\* and the backup are as they were when main() began.
InRecovery ==
    {"recover_load", "recover_apply", "recover_identity", "recover_rmlock",
     "recover_rmbackup", "save_original"}

C5_NotStaleNoRecovery ==
    \A p \in Pids :
        (proc[p] = "wizard" /\ st[p].pc \in InRecovery /\ ~st[p].stale) =>
            /\ st[p].pc = "save_original"
            /\ ~st[p].recovered
            /\ hist[p].applies = << >>
            /\ display = hist[p].at_launch.display
            /\ lockfile = hist[p].at_launch.lockfile
            /\ backup = hist[p].at_launch.backup

C5_Witness ==
    \E p \in Pids : /\ At(p, "save_original")
                    /\ ~st[p].stale
                    /\ ~st[p].recovered
                    /\ backup.kind = "json"
                    /\ lockfile # NoFile

\* C6: a session killed after its startup completed, with its original
\* captured, a dimmed ramp applied and no cleanup() begun, whose pid is free
\* when the next launch checks the record: the next launch recovers, applies
\* the killed session's original first, has removed record and backup when
\* recover_from_crash() returns, and, if that apply was accepted, captures
\* the killed session's original as its own.
KilledDimmed ==
    /\ dead.pid # 0 /\ dead.started /\ dead.dimmed /\ dead.captured
    /\ ~dead.cleaning

AfterRecovery ==
    {"save_original", "save_mkstemp", "save_dump", "save_close", "save_remove",
     "save_rename", "lock_open"}

C6_KilledSessionRecovered ==
    \A q \in Pids :
        (proc[q] = "wizard" /\ KilledDimmed /\ hist[q].owner_free
            /\ st[q].pc \in AfterRecovery) =>
            /\ st[q].recovered
            /\ Len(hist[q].applies) >= 1
            /\ hist[q].applies[1].ramp = dead.orig
            /\ st[q].pc = "save_original" => (lockfile = NoFile /\ backup = NoFile)
            /\ (hist[q].applies[1].ok /\ hist[q].captured)
                  => st[q].original_ramp = dead.orig

C6_Witness ==
    \E q \in Pids : /\ At(q, "save_mkstemp")
                    /\ KilledDimmed
                    /\ hist[q].owner_free
                    /\ hist[q].applies[1].ok
                    /\ st[q].original_ramp = dead.orig
                    /\ dead.orig # identity

\* C7: is_stale_lockfile() answers by the table: no record, not stale; a
\* record that is not a process id, stale; this process's id, not stale;
\* the id of another live process, not stale; the id of no live process,
\* stale.  Neither of its two steps changes the record or the backup.
Named(file) == {n \in Pids : file = TextFile(str(n))}

StaleTable(file, live, self) ==
    CASE file = NoFile       -> FALSE
      [] file # NoFile /\ Named(file) = {} -> TRUE
      [] OTHER -> LET n == CHOOSE m \in Named(file) : TRUE
                  IN  IF n = self THEN FALSE
                      ELSE IF n \in live THEN FALSE ELSE TRUE

C7_IsStaleTable ==
    [][\A p \in Pids :
         /\ (IsStaleExists(p) /\ st'[p].pc # "is_stale_read") =>
                st'[p].stale = StaleTable(lockfile, Live, p)
         /\ IsStaleRead(p) =>
                /\ st'[p].stale = StaleTable(lockfile, Live, p)
                /\ st'[p].stale = is_stale_lockfile(lockfile, Live, p)
         /\ (IsStaleExists(p) \/ IsStaleRead(p)) =>
                /\ lockfile' = lockfile
                /\ backup' = backup]_vars

C7_Witness ==
    \E p \in Pids, q \in Pids :
        /\ At(p, "save_original")
        /\ ~st[p].stale
        /\ q # p
        /\ proc[q] = "other"
        /\ lockfile = TextFile(str(q))

\* C8: when set_brightness returns: if the display accepted the ramp the
\* modified flag is set and the last-applied level is the requested
\* percentage, clamped to 10..100; if the display rejected it the flag and
\* the level are those the session had when the call began.
ClampPct(r) == IF r < 10 THEN 10 ELSE IF r > 100 THEN 100 ELSE r

C8_SetBrightnessEffects ==
    \A p \in Pids :
        At(p, "sb_ret") =>
            IF st[p].ok
            THEN /\ st[p]._ramp_modified
                 /\ st[p]._last_applied_brightness = ClampPct(st[p].request)
            ELSE Snapshot(p) = hist[p].pre

\* C9: the last-applied level is always within 10..100; an accepted request
\* below 10 percent puts the ramp of a 10 percent request on the display and
\* records 10, an accepted request above 100 percent puts the ramp of a
\* 100 percent request, the identity ramp, on the display and records 100.
C9_Clamp ==
    \A p \in Pids :
        /\ st[p]._last_applied_brightness \in 10..100
        /\ (At(p, "sb_ret") /\ st[p].ok /\ st[p].request < 10) =>
              /\ display = sb_ramp[10]
              /\ st[p]._last_applied_brightness = 10
        /\ (At(p, "sb_ret") /\ st[p].ok /\ st[p].request > 100) =>
              /\ display = sb_ramp[100]
              /\ display = identity
              /\ st[p]._last_applied_brightness = 100

C9_Witness ==
    \E p \in Pids : /\ At(p, "sb_ret")
                    /\ st[p].ok
                    /\ st[p].request < 10
                    /\ st[p]._last_applied_brightness = 10
                    /\ display # identity

\* C10: when restore_original_ramp returns: if the apply was accepted the
\* display holds original_ramp and the modified flag is false; if it was
\* rejected the flag is as it was before the call.
C10_RestoreOriginal ==
    /\ \A p \in Pids :
          (At(p, "ro_ret") \/ At(p, "cu_ro_ret")) =>
              IF st[p].ok
              THEN /\ display = st[p].original_ramp
                   /\ ~st[p]._ramp_modified
              ELSE st[p]._ramp_modified = hist[p].pre.modified

C10_Witness ==
    \E p \in Pids : /\ At(p, "ro_ret")
                    /\ ~st[p].ok
                    /\ hist[p].pre.modified
                    /\ st[p]._ramp_modified
                    /\ display # st[p].original_ramp

\* C11: the manual restore and the repair of recover_from_crash() do the
\* same: each makes the applies that lines 331-341 make for the backup found
\* at the start and the answers of the display, leaves the display on the
\* last accepted ramp, and ends with the record and the backup removed.
repair(saved, accept) ==
    IF saved.kind = "ramp"
    THEN IF accept[1]
         THEN <<[ramp |-> saved.ramp, ok |-> TRUE]>>
         ELSE <<[ramp |-> saved.ramp, ok |-> FALSE],
                [ramp |-> identity, ok |-> accept[2]]>>
    ELSE <<[ramp |-> identity, ok |-> accept[1]]>>

\* the ramp on the display after the applies a, from display d
Shown(d, a) ==
    IF \E k \in 1..Len(a) : a[k].ok
    THEN a[CHOOSE k \in 1..Len(a) : a[k].ok /\ \A j \in (k + 1)..Len(a) : ~a[j].ok].ramp
    ELSE d

Repaired(p) ==
    /\ \E accept \in [1..2 -> BOOLEAN] :
          hist[p].applies = repair(load(hist[p].at_launch.backup), accept)
    /\ display = Shown(hist[p].at_launch.display, hist[p].applies)
    /\ lockfile = NoFile
    /\ backup = NoFile

C11_ManualRestoreIsRepair ==
    \A p \in Pids :
        /\ (At(p, "save_original") /\ st[p].recovered) => Repaired(p)
        /\ At(p, "mr_return") => Repaired(p)

C11_Witness ==
    \E p \in Pids : /\ At(p, "mr_return")
                    /\ Len(hist[p].applies) = 2
                    /\ ~hist[p].applies[1].ok
                    /\ hist[p].applies[2].ok
                    /\ hist[p].at_launch.lockfile # NoFile
                    /\ hist[p].at_launch.display # identity

\* C12: whatever step of save_ramp_to_disk a kill interrupts, the backup
\* path holds no file or a complete document that load_ramp_from_disk
\* accepts; text written in part exists only in the temporary file.
C12_NoHalfWrittenBackup ==
    /\ backup.kind \in {"none", "json"}
    /\ backup.kind = "json" =>
          /\ backup.data \in 1..Len(Ramps)
          /\ load(backup) = [kind |-> "ramp", ramp |-> backup.data]

C12_Witness ==
    /\ dead.pid # 0
    /\ tmpfile[dead.pid] = [kind |-> "partial"]
    /\ backup.kind = "json"

(***************************************************************************)
(* C13: load_ramp_from_disk returns None, and never raises, when the file  *)
(* is missing, is not parsable JSON, lacks one of the three channels or    *)
(* has a channel whose length is not 256; it returns a ramp only for a     *)
(* file whose three channels each hold 256 entries.                        *)
(***************************************************************************)
Missing(file) == file.kind = "none"

Unparsable(file) == file.kind \in {"partial", "text"}

LacksChannel(file) ==
    /\ file.kind = "document"
    /\ {"Red", "Green", "Blue"} \ DOMAIN file.dict # {}

WrongLength(file) ==
    /\ file.kind = "document"
    /\ \E c \in {"Red", "Green", "Blue"} \cap DOMAIN file.dict :
         Len(file.dict[c]) # 256

ThreeChannels(file) ==
    \/ file.kind = "json"
    \/ /\ file.kind = "document"
       /\ \A c \in {"Red", "Green", "Blue"} :
            c \in DOMAIN file.dict /\ Len(file.dict[c]) = 256

ListsRoundTrip ==
    \A k \in 1..Len(Ramps) : _lists_to_ramp(_ramp_to_lists(Ramps[k])) = Ramps[k]

C14_RoundTrip ==
    /\ ListsRoundTrip
    /\ \A p \in Pids :
        /\ (At(p, "disk_saved") /\ st[p].ok) =>
              /\ backup = JsonFile(st[p].original_ramp)
              /\ load(backup) = [kind |-> "ramp", ramp |-> st[p].original_ramp]
        /\ (At(p, "disk_loaded") /\ st[p].ok) =>
              st[p].saved = [kind |-> "ramp", ramp |-> st[p].original_ramp]

\* the full-scale ramp was saved over the backup of another ramp and loaded
C14_Witness ==
    \E p \in Pids :
        /\ At(p, "disk_loaded")
        /\ st[p].ok
        /\ hist[p].at_launch.backup = JsonFile(sb_ramp[70])
        /\ st[p].original_ramp = Ref(full_ramp)
        /\ st[p].saved = [kind |-> "ramp", ramp |-> Ref(full_ramp)]

(***************************************************************************)
(* C15: when save_original_ramp() or _apply_ramp() has returned or raised, *)
(* whether the OS call succeeded, reported failure or raised, ReleaseDC    *)
(* was called exactly once for the handle GetDC gave and no handle is      *)
(* held; no call holds more than its one handle.                           *)
(***************************************************************************)
C15_HandleReleased ==
    \A p \in Pids :
        /\ st[p].hdc \in {0, 1}
        /\ (\E l \in {"ar_returned", "ar_raised", "so_returned", "so_raised"} :
                At(p, l)) => (st[p].hdc = 0 /\ hist[p].released = 1)
        /\ At(p, "display") => st[p].hdc = 0
        /\ (At(p, "ar_try") \/ At(p, "so_try") \/ InFinally(p)) =>
                (st[p].hdc = 1 /\ hist[p].released = 0)

\* SetDeviceGammaRamp raised, and _apply_ramp has passed its finally clause
C15_Witness ==
    \E p \in Pids :
        At(p, "ar_raised") /\ st[p].hdc = 0 /\ hist[p].released = 1

(***************************************************************************)
(* C16: a session in which the OS call of _apply_ramp raised during the    *)
(* restore step of cleanup() has, when it ends, released the record and    *)
(* removed the backup; a session in which it raised during the repair of   *)
(* recover_from_crash() ends with no record and no backup on disk.         *)
(***************************************************************************)
C16_FaultConverted ==
    [][\A p \in Pids :
         Exits(p) =>
            /\ hist[p].fault = "cleanup" =>
                  /\ hist[p].cu_count.release = 1
                  /\ hist[p].cu_count.remove = 1
            /\ hist[p].fault = "recovery" =>
                  /\ lockfile = NoFile
                  /\ backup = NoFile]_vars

(***************************************************************************)
(* C17: the ramp build_gamma_ramp(factor) returns is the reference ramp:   *)
(* each channel holds at each index i the value min(65535, floor(i*256*f)) *)
(* for f the argument clamped to [0.0, 1.0], the product being the exact   *)
(* product with the double passed, or the exact product with the quotient  *)
(* num/den the caller wrote.                                               *)
(***************************************************************************)
\* floor(n * x) for an integer n >= 0 and a double x >= 0, without rounding
ExactFloor(n, x) ==
    IF n = 0 \/ x.z THEN 0
    ELSE LET prod == MulCarry(x.m, n, 0, << >>)
             e    == x.e + (Len(prod) - SigBits)
         IN  IF e < 0 THEN 0 ELSE BitsNat(prod, e + 1)

\* the double x clamped to [0.0, 1.0]
Clamped(x) ==
    IF x.s = 1 /\ ~x.z THEN DZero
    ELSE IF DLess(DOne, x) THEN DOne ELSE x

\* min(65535, floor(i*256*f)) for the double x
reference(i, x) ==
    LET v == ExactFloor(i * 256, Clamped(x))
    IN  IF v > 65535 THEN 65535 ELSE v

\* min(65535, floor(i*256*f)) for the rational num/den
reference_rational(i, num, den) ==
    LET v == IF num < 0 THEN 0
             ELSE IF num > den THEN i * 256
             ELSE (i * 256 * num) \div den
    IN  IF v > 65535 THEN 65535 ELSE v

C17_BuildIsReference ==
    \A p \in Pids :
        At(p, "bg_returned") =>
            \/ \A c \in {"Red", "Green", "Blue"} : \A i \in 0..255 :
                   st[p].ramp[c][i] = reference(i, st[p].arg)
            \/ \A c \in {"Red", "Green", "Blue"} : \A i \in 0..255 :
                   st[p].ramp[c][i] = reference_rational(i, st[p].num, st[p].den)

(***************************************************************************)
(* C18: for every argument in [0, 1] the ramp build_gamma_ramp returns is  *)
(* non-decreasing in the index, has equal Red, Green and Blue values at    *)
(* every index, and has every value in 0..65535; the same holds of the     *)
(* entries already written, after every turn of the loop.                  *)
(***************************************************************************)
InUnit(p) == 0 <= st[p].num /\ st[p].num <= st[p].den

C18_BuildShape ==
    \A p \in Pids :
        ((At(p, "bg_loop") \/ At(p, "bg_returned")) /\ InUnit(p)) =>
            /\ At(p, "bg_returned") => st[p].i = 256
            /\ \A i \in 0..(st[p].i - 1) :
                 /\ st[p].ramp["Red"][i] = st[p].ramp["Green"][i]
                 /\ st[p].ramp["Green"][i] = st[p].ramp["Blue"][i]
                 /\ st[p].ramp["Red"][i] \in 0..65535
                 /\ i > 0 => st[p].ramp["Red"][i - 1] <= st[p].ramp["Red"][i]

\* build_gamma_ramp(7 / 10) has returned a ramp that rises
C18_Witness ==
    \E p \in Pids :
        /\ At(p, "bg_returned")
        /\ st[p].num = 7 /\ st[p].den = 10
        /\ st[p].ramp["Blue"][1] < st[p].ramp["Blue"][255]

(***************************************************************************)
(* C19: the cleanup() call that passes the guard goes to the restore of    *)
(* the original ramp exactly when _ramp_modified is true at that moment;   *)
(* the restore attempt comes before the removal of the lock file, which    *)
(* comes before the removal of the backup; when restore_original_ramp      *)
(* returns, accepted or rejected, cleanup() goes on to remove the lock     *)
(* file, and a cleanup() that ran to its end after a rejected restore has  *)
(* removed both files.  (Steps a signal or a kill cuts off are not taken;  *)
(* the order of those taken is what is stated.)                            *)
(***************************************************************************)
C19_CleanupOrder ==
    [][\A p \in Pids :
         /\ CleanupIfModified(p) =>
               /\ hist[p].cu_count = NoCount
               /\ st'[p].pc = IF st[p]._ramp_modified THEN "cu_ro_apply"
                               ELSE "cu_rmlock"
         /\ CleanupRestoreApply(p) =>
               /\ st[p]._ramp_modified
               /\ hist[p].cu_count = NoCount
         /\ CleanupRestoreReturn(p) => st'[p].pc = "cu_rmlock"
         /\ CleanupRemoveLock(p) =>
               /\ hist[p].cu_count.restore = 0 => ~st[p]._ramp_modified
               /\ hist[p].cu_count.restore = 1 =>
                     (st[p]._ramp_modified <=> hist[p].rejected)
               /\ hist[p].cu_count.release = 0
               /\ hist[p].cu_count.remove = 0
               /\ lockfile' = NoFile
               /\ st'[p].pc = "cu_rmbackup"
         /\ CleanupRemoveBackup(p) =>
               /\ hist[p].cu_count.release = 1
               /\ hist[p].cu_count.remove = 0
               /\ lockfile = NoFile
               /\ backup' = NoFile
               /\ hist'[p].cu_count.restore \in {0, 1}]_vars

\* cleanup() ran to its end although its restore was rejected
C19_Witness ==
    \E p \in Pids :
        /\ proc[p] = "wizard"
        /\ hist[p].cleanup_complete
        /\ hist[p].rejected
        /\ st[p]._ramp_modified
        /\ hist[p].cu_count = [restore |-> 1, release |-> 1, remove |-> 1]
        /\ lockfile = NoFile
        /\ backup = NoFile

(***************************************************************************)
(* C20: a launch begins with the staleness check; save_original_ramp()     *)
(* reads the display only when the check, and the repair of a stale        *)
(* record, are over; the backup is saved when the read succeeded; the lock *)
(* file is created after that, whatever it held is replaced and this       *)
(* process's id is written; the hooks are registered on a lock file that   *)
(* names this process; set_brightness applies a ramp only in a session     *)
(* with the hooks registered, the lock file naming it and, when the read   *)
(* succeeded, the backup of the ramp read on disk.  (When the read fails,  *)
(* save_original_ramp() returns without saving and main() goes on.)        *)
(***************************************************************************)
C20_LaunchOrder ==
    [][\A p \in Pids :
         /\ Launch(p) => st'[p].pc = "is_stale_exists"
         /\ SaveOriginal(p) =>
               /\ ~st[p].hooks
               /\ st[p].stale => /\ st[p].recovered
                                 /\ lockfile = NoFile
                                 /\ backup = NoFile
               /\ hist'[p].captured => st'[p].pc = "save_mkstemp"
         /\ LockOpen(p) =>
               /\ ~st[p].hooks
               /\ hist[p].captured => backup = JsonFile(st[p].original_ramp)
               /\ lockfile' = TextFile(<< >>)
         /\ LockWrite(p) => lockfile' = TextFile(str(p))
         /\ Register(p) =>
               /\ ~st[p].hooks /\ st'[p].hooks
               /\ ~hist[p].dimmed
               /\ lockfile = TextFile(str(p))
         /\ SetBrightnessApply(p) =>
               /\ st[p].hooks
               /\ lockfile = TextFile(str(p))
               /\ hist[p].captured => backup = JsonFile(st[p].original_ramp)]_vars

\* set_brightness had its ramp accepted in the second session launched
C20_Witness ==
    \E p \in Pids :
        /\ At(p, "sb_if")
        /\ st[p].ok
        /\ st[p].hooks
        /\ hist[p].captured
        /\ lockfile = TextFile(str(p))
        /\ backup = JsonFile(st[p].original_ramp)
        /\ launches = 2

(***************************************************************************)
(* C21: no failure of a file operation leaves a storage function as an     *)
(* exception: save_ramp_to_disk returns False, load_ramp_from_disk returns *)
(* None, remove_ramp_backup, create_lockfile and remove_lockfile return;   *)
(* remove_ramp_backup and remove_lockfile called when their file is        *)
(* absent return with no failure and leave both files as they were.        *)
(***************************************************************************)
C21_StorageFailureContained ==
    \A p \in Pids :
        /\ ~At(p, "st_raised")
        /\ At(p, "st_returned") =>
            LET fn     == st[p].fn
                before == hist[p].at_launch
            IN  /\ (fn = "save_ramp_to_disk" /\ hist[p].fault # "none") =>
                      ~st[p].ok
                /\ (fn = "save_ramp_to_disk" /\ st[p].ok) =>
                      backup = JsonFile(st[p].original_ramp)
                /\ (fn = "load_ramp_from_disk" /\ before.backup # NoFile
                        /\ ~st[p].ok) => st[p].saved = None
                /\ (fn = "remove_ramp_backup" /\ before.backup = NoFile) =>
                      /\ st[p].ok
                      /\ backup = NoFile
                      /\ lockfile = before.lockfile
                /\ (fn = "remove_lockfile" /\ before.lockfile = NoFile) =>
                      /\ st[p].ok
                      /\ lockfile = NoFile
                      /\ backup = before.backup
                /\ fn \in {"remove_ramp_backup", "remove_lockfile",
                            "load_ramp_from_disk", "create_lockfile"} =>
                      display = before.display

\* remove_lockfile() has returned although os.remove failed
C21_Witness ==
    \E p \in Pids :
        /\ At(p, "st_returned")
        /\ st[p].fn = "remove_lockfile"
        /\ ~st[p].ok
        /\ lockfile # NoFile
        /\ lockfile = hist[p].at_launch.lockfile

(***************************************************************************)
(* C22: whenever the display holds a ramp that set_brightness() of the     *)
(* session applied and that is not the original the session captured, the  *)
(* record and the backup are both on disk; the same holds once the session *)
(* was killed, until another launch begins.  A session that exits leaves   *)
(* the display and the files as they are in its last running state.        *)
(***************************************************************************)
C22_DimmedIsRecoverable ==
    /\ \A p \in Pids :
          (proc[p] = "wizard" /\ hist[p].dimmed /\ hist[p].captured
              /\ display = sb_ramp[70] /\ display # st[p].original_ramp)
          => (lockfile # NoFile /\ backup # NoFile)
    /\ (dead.pid # 0 /\ dead.dimmed /\ dead.captured
          /\ (\A q \in Pids : proc[q] # "wizard")
          /\ display = sb_ramp[70] /\ display # dead.orig)
          => (lockfile # NoFile /\ backup # NoFile)

(***************************************************************************)
(* C23: a complete backup on disk is never made of the dimmed ramp that    *)
(* set_brightness() built: the original a launch captures and saves is not *)
(* a dimmed ramp an earlier session left on the display.                   *)
(***************************************************************************)
C23_BackupNeverDimmed ==
    backup.kind = "json" => backup.data # sb_ramp[70]

(***************************************************************************)
(* C24: restore_original_ramp(), called from the menu or from cleanup(),   *)
(* applies a ramp only when GetDeviceGammaRamp filled original_ramp at     *)
(* startup, and the display never holds the all-zero ramp original_ramp is *)
(* initialised with.                                                       *)
(***************************************************************************)
C24_RestoreAppliesCaptured ==
    /\ \A p \in Pids :
          (proc[p] = "wizard" /\ st[p].pc \in {"ro_apply", "cu_ro_apply"})
              => hist[p].captured
    /\ display # zero_ramp

(***************************************************************************)
(* C25: while the record names a process that is alive, no step of another *)
(* process removes or rewrites the record or the backup.                   *)
(***************************************************************************)
C25_OwnerFilesUntouched ==
    [][\A q \in Pids :
         (/\ proc[q] = "wizard"
          /\ lockfile = TextFile(str(q))
          /\ proc'[q] = proc[q] /\ st'[q] = st[q])
         => (lockfile' = lockfile /\ backup' = backup)]_vars

(***************************************************************************)
(* C26: a launch that begins while the record on disk names a session that *)
(* was killed has, when recover_from_crash() returns, found the record     *)
(* stale and recovered, whichever processes are alive at that launch.      *)
(***************************************************************************)
C26_KilledOwnerIsStale ==
    \A q \in Pids :
        (/\ proc[q] = "wizard"
         /\ dead.pid # 0
         /\ hist[q].at_launch.lockfile = TextFile(str(dead.pid))
         /\ st[q].pc = "save_original")
        => (st[q].stale /\ st[q].recovered)

(***************************************************************************)
(* C27: when save_ramp_to_disk() was called while a complete backup was at *)
(* the backup path, then at every point of the call the path holds a       *)
(* complete backup: the old one, or the one made of the new ramp.  A       *)
(* process that dies leaves the files as they are at that point.           *)
(***************************************************************************)
C27_ReplaceIsAtomic ==
    \A p \in Pids :
        (/\ st[p].fn = "save_ramp_to_disk"
         /\ st[p].pc \in {"save_mkstemp", "save_dump", "save_close",
                           "save_remove", "save_rename", "save_unlink"}
         /\ hist[p].at_launch.backup.kind = "json")
        => (\/ backup = hist[p].at_launch.backup
            \/ backup = JsonFile(st[p].original_ramp))

(***************************************************************************)
(* C28: load_ramp_from_disk() returns a ramp only for a file whose three   *)
(* channels hold integers from 0 to 65535, and every entry of the ramp is  *)
(* then the entry of the file; a file with an entry outside that range is  *)
(* read as None.                                                           *)
(***************************************************************************)
C28_LoadChecksRange ==
    \A p \in Pids :
        (At(p, "disk_loaded") /\ backup.kind = "document"
            /\ st[p].saved.kind = "ramp") =>
            \A c \in {"Red", "Green", "Blue"} :
                \A i \in 1..Len(backup.dict[c]) :
                    /\ backup.dict[c][i] \in 0..WordMax
                    /\ load_ramp_from_disk(backup).ramp[c][i - 1]
                           = backup.dict[c][i]

====
